---- MODULE Spec2Model ----
(***************************************************************************)
(* searchkit: the embedding task pipeline.                                 *)
(*                                                                         *)
(* The task store (tasks.Repo over the embedding_tasks and                 *)
(* embedding_dead_letters tables) and the worker that drains it            *)
(* (DrainOnce, processBatch, handleTaskResult).  Timestamps are whole      *)
(* seconds; durations are counted in units of 1/Second of a second.        *)
(***************************************************************************)
EXTENDS Integers, FiniteSets, Sequences, TLC

\* ------------------------------------------------------------------ bounds
MaxClock == 2

\* Worker options of this configuration (Options.MaxAttempts, BackoffBase and
\* BackoffMax, the latter two in seconds).
CfgMaxAttempts == 2
CfgBackoffBaseSecs == 1
CfgBackoffMaxSecs == 2

\* ------------------------------------------------------- program constants
\* time.Second, in duration units.
Second == 4
\* FetchReady: lockAhead <= 0 becomes 30 * time.Second.
DefaultLockAheadSecs == 30
\* Fail: backoff <= 0 becomes 30 * time.Second.
DefaultFailBackoffSecs == 30

Workers == {"w1", "w2"}

\* ------------------------------------------------------------- identities
\* Task rows are keyed by (entity_type, entity_id, model).
Ident(et, eid, m) == [entity_type |-> et, entity_id |-> eid, model |-> m]

\* The identities of this configuration: a vision-language task, a task
\* whose entity type is a single space (Enqueue accepts it), and a text task.
VLTask == Ident("gallery", "1", "vl-model")
SpaceTask == Ident(" ", "1", "text-model")
TextTask == Ident("gallery", "2", "text-model")
WikiTask == Ident("wiki", "1", "text-model")
Identities == {VLTask, SpaceTask, TextTask}

\* The identities the host enqueues while one worker drains, with further
\* arguments a caller can hand to Enqueue, and the identities queued when two
\* workers drain.
EnqueuedIdentities == {TextTask, SpaceTask}
EnqueueArgs ==
    EnqueuedIdentities
        \cup { Ident("", "1", "text-model"), Ident("gallery", " ", "text-model") }
QueuedIdentities == {VLTask, SpaceTask}

Reasons == {"dirty", "model_backfill"}

\* strings.TrimSpace on the strings of this configuration.
TrimSpace(s) == IF s = " " THEN "" ELSE s

\* Code point order of the strings of this configuration.
StrRank(s) ==
    CASE s = "" -> 0
      [] s = " " -> 1
      [] s = "1" -> 2
      [] s = "2" -> 3
      [] s = "en" -> 4
      [] s = "fr" -> 5
      [] s = "gallery" -> 6
      [] s = "text-model" -> 7
      [] s = "vl-model" -> 8
      [] s = "wiki" -> 9
      [] OTHER -> 10

Min(a, b) == IF a <= b THEN a ELSE b
Max(a, b) == IF a >= b THEN a ELSE b

\* ------------------------------------------------------------------ state
VARIABLES
    clock,      \* the time now, in seconds
    tasks,      \* the embedding_tasks table: a set of rows
    dead,       \* the embedding_dead_letters table: a set of rows
    pc,         \* per worker: where its tick stands
    fetching,   \* per worker: the FetchReady statement in flight, or NoFetch
    held,       \* per worker: the leased batch of the current tick
    issuedMax,  \* per identity: the latest lease token FetchReady handed out
    gaveUp,     \* per identity: the error and attempts of the last give-up
    result,     \* the input and the result of the last function applied alone
    returned,   \* per worker: what its last DrainOnce returned
    vectors,    \* the embedding_vectors table: the identities with a vector
    documents,  \* the search_documents table: the entities with a document
    dirty,      \* the search_dirty table: a set of markers
    rec,        \* the reconciler pass in progress
    bfState,    \* the embedding_vectors_backfill_state table, per partition
    bfRun,      \* per instance: the backfill tick in progress
    registry,   \* the embedding_models table
    dispatch    \* the processBatch in progress: its units, gate and outcomes

\* The variables of the reconciler, the backfill, the model registry and the
\* dispatch, and the tick's return value.
engineVars ==
    <<returned, vectors, documents, dirty, rec, bfState, bfRun, registry, dispatch>>

vars == <<clock, tasks, dead, pc, fetching, held, issuedMax, gaveUp, result,
          returned, vectors, documents, dirty, rec, bfState, bfRun, registry,
          dispatch>>

NoFetch == [active |-> FALSE]
NoErr == "nil"
NoGiveUp == [gone |-> FALSE]

\* A row of embedding_tasks.  The columns no operation reads (started_at,
\* created_at, updated_at) are left out.
TaskRow(id, reason, attempts, next_run_at) ==
    [id |-> id, reason |-> reason, attempts |-> attempts, next_run_at |-> next_run_at]

RowsOf(T, id) == {r \in T : r.id = id}


\* ------------------------------------------------------------ tasks.Repo
\* The Repo's schema name; every operation fails with "schema is required"
\* when it is empty.
RepoSchema == "public"

\* Enqueue's argument checks: the entity type and the model are compared with
\* the empty string, the entity id is trimmed first.
EnqueueInvalid(id) ==
    \/ id.entity_type = ""
    \/ id.model = ""
    \/ TrimSpace(id.entity_id) = ""
    \/ RepoSchema = ""

\* Complete, Fail and DeadLetter return nil at once when a trimmed field of
\* the identity is empty.
IdentBlank(id) ==
    \/ TrimSpace(id.entity_type) = ""
    \/ TrimSpace(id.entity_id) = ""
    \/ TrimSpace(id.model) = ""

\* Variant: the upsert overwrites next_run_at with now().
EnqueueRowsNoLeast(T, id, reason, now) ==
    IF RowsOf(T, id) = {}
    THEN T \cup {TaskRow(id, reason, 0, now)}
    ELSE { IF r.id = id
           THEN [r EXCEPT !.reason = reason, !.next_run_at = now]
           ELSE r : r \in T }

\* Variant: a plain INSERT with no unique key to conflict on.
EnqueueRowsNoConflict(T, id, reason, now) ==
    T \cup {TaskRow(id, reason, 0, now)}

\* INSERT ... ON CONFLICT (entity_type, entity_id, model) DO UPDATE SET
\* reason = EXCLUDED.reason, next_run_at = LEAST(next_run_at, now()).
EnqueueRows(T, id, reason, now) ==
    IF RowsOf(T, id) = {}
    THEN T \cup {TaskRow(id, reason, 0, now)}
    ELSE { IF r.id = id
           THEN [r EXCEPT !.reason = reason,
                          !.next_run_at = Min(r.next_run_at, now)]
           ELSE r : r \in T }

\* ORDER BY next_run_at ASC, entity_type ASC, entity_id ASC, model ASC.
RowLess(a, b) ==
    \/ a.next_run_at < b.next_run_at
    \/ /\ a.next_run_at = b.next_run_at
       /\ \/ StrRank(a.id.entity_type) < StrRank(b.id.entity_type)
          \/ /\ a.id.entity_type = b.id.entity_type
             /\ \/ StrRank(a.id.entity_id) < StrRank(b.id.entity_id)
                \/ /\ a.id.entity_id = b.id.entity_id
                   /\ StrRank(a.id.model) < StrRank(b.id.model)

\* The first n rows of S in that order (LIMIT n).
FirstRows(S, n) == {r \in S : Cardinality({q \in S : RowLess(q, r)}) < n}

\* lockAhead <= 0 becomes 30 seconds.
EffectiveLockAhead(lockAhead) ==
    IF lockAhead <= 0 THEN DefaultLockAheadSecs * Second ELSE lockAhead

\* time.Time.Add for a duration of whole seconds.
AddDuration(t, d) == t + (d \div Second)

\* Variant: the SELECT reads rows another statement has locked.
PickRowsNoSkipLocked(T, now, limit, lockedIds) ==
    FirstRows({r \in T : r.next_run_at <= now}, limit)

\* Variant: WHERE next_run_at < $1.
PickRowsStrictlyBefore(T, now, limit, lockedIds) ==
    FirstRows({r \in T : r.next_run_at < now /\ r.id \notin lockedIds}, limit)

\* The CTE "picked": WHERE next_run_at <= $1 ORDER BY ... LIMIT $2
\* FOR UPDATE SKIP LOCKED (rows locked by a statement in flight are skipped
\* before the limit is applied).
PickRows(T, now, limit, lockedIds) ==
    FirstRows({r \in T : r.next_run_at <= now /\ r.id \notin lockedIds}, limit)

\* UPDATE ... SET next_run_at = $3 for the picked rows.
LeaseRows(T, ids, now, next) ==
    {IF r.id \in ids THEN [r EXCEPT !.next_run_at = next] ELSE r : r \in T}

\* Variant: the DELETE leaves out AND next_run_at = $4.
CompleteRowsUnfenced(T, id, leaseUntil) ==
    IF IdentBlank(id) THEN T ELSE {r \in T : r.id # id}

\* DELETE ... WHERE identity AND next_run_at = $4.
CompleteRows(T, id, leaseUntil) ==
    IF IdentBlank(id)
    THEN T
    ELSE {r \in T : ~(r.id = id /\ r.next_run_at = leaseUntil)}

\* UPDATE ... SET attempts = attempts + 1,
\* next_run_at = now() + make_interval(secs => $1)
\* WHERE identity AND next_run_at = $5, with secs = max(1, backoff / time.Second).
FailRows(T, id, leaseUntil, backoff, now) ==
    LET b == IF backoff <= 0 THEN DefaultFailBackoffSecs * Second ELSE backoff
        s == b \div Second
        secs == IF s < 1 THEN 1 ELSE s
    IN IF IdentBlank(id)
       THEN T
       ELSE { IF r.id = id /\ r.next_run_at = leaseUntil
              THEN [r EXCEPT !.attempts = r.attempts + 1, !.next_run_at = now + secs]
              ELSE r : r \in T }

\* ------------------------------------------------------------------ errors
NilErr == [type |-> "nil", status |-> 0]
ErrEntityNotFound == [type |-> "ErrEntityNotFound", status |-> 0]
APIError(code) == [type |-> "APIError", status |-> code]
RequestError(code) == [type |-> "RequestError", status |-> code]
\* Any other error value: a timeout, a store error, ...
TimeoutErr == [type |-> "error", status |-> 0]

\* The text err.Error() gives.
ErrorText(e) == IF e = NilErr THEN <<"unknown error">> ELSE <<e.type, e.status>>

\* A row of embedding_dead_letters.
DeadRow(id, reason, error, attempts) ==
    [id |-> id, reason |-> reason, error |-> error, attempts |-> attempts]

\* DeadLetter: in one transaction, upsert the dead-letter row, then delete
\* the task row WHERE identity AND next_run_at = $4.
DeadLetterApply(T, D, t, leaseUntil, err) ==
    IF IdentBlank(t.id)
    THEN [tasks |-> T, dead |-> D]
    ELSE [tasks |-> {r \in T : ~(r.id = t.id /\ r.next_run_at = leaseUntil)},
          dead |-> {d \in D : d.id # t.id}
                   \cup {DeadRow(t.id, t.reason, ErrorText(err), Max(t.attempts, 0))}]


\* ------------------------------------------------------------------ worker
\* Options.withDefaults: MaxAttempts <= 0 becomes 10, BackoffBase <= 0
\* becomes 5 s, BackoffMax <= 0 becomes 10 min.
DefaultMaxAttempts == 10
DefaultBackoffBaseSecs == 5
DefaultBackoffMaxSecs == 600

MaxAttempts == IF CfgMaxAttempts <= 0 THEN DefaultMaxAttempts ELSE CfgMaxAttempts
BackoffBase ==
    (IF CfgBackoffBaseSecs <= 0 THEN DefaultBackoffBaseSecs ELSE CfgBackoffBaseSecs) * Second
BackoffMax ==
    (IF CfgBackoffMaxSecs <= 0 THEN DefaultBackoffMaxSecs ELSE CfgBackoffMaxSecs) * Second

\* Runtime.IsVLModel.
IsVLModel(model) == model = "vl-model"

\* isRetryable: an APIError or RequestError is retryable for 429, 408 and
\* 500..599; every other error is retryable.
isRetryable(err) ==
    IF err.type \in {"APIError", "RequestError"}
    THEN \/ err.status = 429
         \/ err.status = 408
         \/ (err.status >= 500 /\ err.status <= 599)
    ELSE TRUE

RECURSIVE Pow2(_)
Pow2(n) == IF n <= 0 THEN 1 ELSE 2 * Pow2(n - 1)

\* expBackoff: base * 2^(attempt-1), capped at max.
expBackoff(base, attempt, max) ==
    LET a == IF attempt < 1 THEN 1 ELSE attempt
        d == base * Pow2(a - 1)
    IN IF d > max THEN max ELSE d

\* addJitter adds rng.Int63n(d / 4): the values the random source can give.
JitterChoices(d) == IF d <= 0 THEN {0} ELSE 0 .. ((d \div 4) - 1)

addJitter(d, j) == IF d <= 0 THEN d ELSE d + j

CompleteCall(t) == [call |-> "Complete", task |-> t, leaseUntil |-> t.next_run_at]
FailCall(t, backoff) ==
    [call |-> "Fail", task |-> t, leaseUntil |-> t.next_run_at, backoff |-> backoff]
DeadLetterCall(t, leaseUntil, err) ==
    [call |-> "DeadLetter", task |-> t, leaseUntil |-> leaseUntil, err |-> err]

\* Variant: the cap is compared with > instead of >=.
handleTaskResultCapAfterRetry(task, err, j) ==
    IF err = NilErr \/ err = ErrEntityNotFound
    THEN <<CompleteCall(task)>>
    ELSE LET t == [task EXCEPT !.attempts = task.attempts + 1]
         IN IF t.attempts > MaxAttempts
            THEN <<DeadLetterCall(t, task.next_run_at, err)>>
            ELSE IF ~isRetryable(err)
            THEN <<DeadLetterCall(t, task.next_run_at, err)>>
            ELSE <<FailCall(task,
                    addJitter(expBackoff(BackoffBase, t.attempts, BackoffMax), j))>>

\* handleTaskResult: the repo calls it issues for a task and its result.
handleTaskResult(task, err, j) ==
    IF err = NilErr \/ err = ErrEntityNotFound
    THEN <<CompleteCall(task)>>
    ELSE LET t == [task EXCEPT !.attempts = task.attempts + 1]
         IN IF t.attempts >= MaxAttempts
            THEN <<DeadLetterCall(t, task.next_run_at, err)>>
            ELSE IF ~isRetryable(err)
            THEN <<DeadLetterCall(t, task.next_run_at, err)>>
            ELSE <<FailCall(task,
                    addJitter(expBackoff(BackoffBase, t.attempts, BackoffMax), j))>>

\* The tables after one repo call at time now.
ApplyCall(T, D, c, now) ==
    CASE c.call = "Complete" ->
           [tasks |-> CompleteRows(T, c.task.id, c.leaseUntil), dead |-> D]
      [] c.call = "Fail" ->
           [tasks |-> FailRows(T, c.task.id, c.leaseUntil, c.backoff, now), dead |-> D]
      [] c.call = "DeadLetter" ->
           DeadLetterApply(T, D, c.task, c.leaseUntil, c.err)

RECURSIVE ApplyCalls(_, _, _, _)
ApplyCalls(T, D, calls, now) ==
    IF calls = <<>>
    THEN [tasks |-> T, dead |-> D]
    ELSE LET one == ApplyCall(T, D, Head(calls), now)
         IN ApplyCalls(one.tasks, one.dead, Tail(calls), now)

\* The error each repo call returns.
CallErrors(calls) == [i \in DOMAIN calls |-> IF RepoSchema = "" THEN "schema is required" ELSE NoErr]

\* processBatch, first loop: the document and assets hydrateBatch found for a
\* task (it skips a task with a blank entity type or id, whose document is
\* then the empty string), and the repo calls the loop issues for it.
HydratedDoc(t, doc) ==
    IF TrimSpace(t.id.entity_type) = "" \/ TrimSpace(t.id.entity_id) = "" THEN "" ELSE doc

\* Variant: the first loop puts every task on the work list.
classifyKeepsEmpty(t, doc, assets) == <<>>

\* An empty document, or no asset for a vision-language model: Complete.
classify(t, doc, assets) ==
    IF TrimSpace(HydratedDoc(t, doc)) = ""
    THEN <<CompleteCall(t)>>
    ELSE IF IsVLModel(t.id.model) /\ assets = 0
    THEN <<CompleteCall(t)>>
    ELSE <<>>


\* -------------------------------------------------------------- the steps
\* The bounds of the inputs.
MaxNowLag == 1
MaxLimit == 2
Limits == 0 .. MaxLimit
Docs == {"", " ", "text"}
AssetCounts == {0, 1}
ExecErrors == {NilErr, ErrEntityNotFound, APIError(400), TimeoutErr}
StoreExecErrors == {NilErr, TimeoutErr}

\* The identities whose row a FetchReady statement in flight has locked.
LockedIds == UNION {fetching[w].picked : w \in {x \in Workers : pc[x] = "fetching"}}

HeldItem(t, stage, doc, assets) ==
    [task |-> t, stage |-> stage, doc |-> doc, assets |-> assets]

NoCall == [call |-> "none"]

\* No reconciler pass and no backfill tick in progress.
NoPass == [pc |-> "idle"]
NoRun == [pc |-> "idle"]
NotReturned == "none"
NoBatch == [pc |-> "idle"]

\* The queue and its workers before any tick, the tables they touch holding
\* rows for some of ids.
QueueInit(ids) ==
    /\ clock = 0
    /\ tasks \in SUBSET {TaskRow(id, "dirty", 0, 0) : id \in ids}
    /\ dead = {}
    /\ pc = [w \in Workers |-> "idle"]
    /\ fetching = [w \in Workers |-> NoFetch]
    /\ held = [w \in Workers |-> {}]
    /\ issuedMax = [id \in Identities |-> 0]
    /\ gaveUp = [id \in Identities |-> NoGiveUp]
    /\ result = NoCall
    /\ returned = [w \in Workers |-> NotReturned]

InitWith(ids) ==
    /\ QueueInit(ids)
    /\ vectors = {}
    /\ documents = {}
    /\ dirty = {}
    /\ rec = NoPass
    /\ bfState = {}
    /\ bfRun = [w \in Workers |-> NoRun]
    /\ registry = {}
    /\ dispatch = NoBatch

\* Time passes.
Tick ==
    /\ clock < MaxClock
    /\ clock' = clock + 1
    /\ UNCHANGED <<tasks, dead, pc, fetching, held, issuedMax, gaveUp, result>>
    /\ UNCHANGED engineVars

\* Repo.Enqueue, called by the host, the reconciler or the backfill.  The
\* upsert waits for a row lock held by a FetchReady statement in flight.
Enqueue(id, reason) ==
    /\ IF EnqueueInvalid(id)
       THEN /\ UNCHANGED tasks
            /\ result' = [call |-> "Enqueue", err |-> "required",
                          existed |-> FALSE, pulled |-> FALSE]
       ELSE /\ id \notin LockedIds
            /\ tasks' = EnqueueRows(tasks, id, reason, clock)
            /\ result' = [call |-> "Enqueue", err |-> NoErr,
                          existed |-> RowsOf(tasks, id) # {},
                          pulled |-> \E r \in RowsOf(tasks, id) : r.next_run_at > clock]
    /\ UNCHANGED <<clock, dead, pc, fetching, held, issuedMax, gaveUp>>
    /\ UNCHANGED engineVars

\* DrainOnce calls Repo.FetchReady: the statement starts with the caller's
\* time.Now() and locks the rows it picks.  limit <= 0 returns at once with
\* no task.
FetchBegin(w, limit, lockAhead, now) ==
    /\ pc[w] = "idle"
    /\ IF limit <= 0
       THEN UNCHANGED <<pc, fetching>>
       ELSE LET next == AddDuration(now, EffectiveLockAhead(lockAhead))
                picked == {r.id : r \in PickRows(tasks, now, limit, LockedIds)}
            IN /\ fetching' = [fetching EXCEPT ![w] =
                        [active |-> TRUE, now |-> now, next |-> next, limit |-> limit,
                         lockAhead |-> lockAhead, picked |-> picked,
                         alone |-> \A x \in Workers : pc[x] # "fetching"]]
               /\ pc' = [pc EXCEPT ![w] = "fetching"]
    /\ UNCHANGED <<clock, tasks, dead, held, issuedMax, gaveUp, result>>
    /\ UNCHANGED engineVars

\* The FetchReady statement commits: the picked rows are leased and returned.
\* An empty batch ends the tick.
FetchCommitRows(w) ==
    /\ pc[w] = "fetching"
    /\ LET f == fetching[w]
           T == LeaseRows(tasks, f.picked, f.now, f.next)
           out == {r \in T : r.id \in f.picked}
       IN /\ tasks' = T
          /\ held' = [held EXCEPT ![w] = {HeldItem(r, "leased", "", 0) : r \in out}]
          /\ pc' = [pc EXCEPT ![w] = IF out = {} THEN "idle" ELSE "hydrate"]
    /\ fetching' = [fetching EXCEPT ![w] = NoFetch]
    /\ UNCHANGED <<clock, dead, gaveUp, result>>

\* The same step, with the latest token handed out for each identity recorded.
FetchCommit(w) ==
    /\ FetchCommitRows(w)
    /\ UNCHANGED engineVars
    /\ issuedMax' = [id \in Identities |->
                       IF id \in fetching[w].picked
                       THEN Max(issuedMax[id], fetching[w].next)
                       ELSE issuedMax[id]]

FetchCommitUnlogged(w) ==
    FetchCommitRows(w) /\ UNCHANGED issuedMax /\ UNCHANGED engineVars

\* hydrateBatch returns the documents and assets of the batch.
Hydrate(w) ==
    /\ pc[w] = "hydrate"
    /\ pc' = [pc EXCEPT ![w] = "process"]
    /\ UNCHANGED <<clock, tasks, dead, fetching, held, issuedMax, gaveUp, result>>
    /\ UNCHANGED engineVars

\* hydrateBatch returns an error: DrainOnce returns it, and the leased tasks
\* of the batch get no outcome.
HydrateError(w) ==
    /\ pc[w] = "hydrate"
    /\ pc' = [pc EXCEPT ![w] = "idle"]
    /\ held' = [held EXCEPT ![w] = {}]
    /\ UNCHANGED <<clock, tasks, dead, fetching, issuedMax, gaveUp, result>>
    /\ UNCHANGED engineVars

\* The record of a repo call: what led to it (an empty document, or the kind
\* of error the execution returned), whether the task row existed when it ran
\* and whether its next_run_at matched the lease token.
CallRecord(cause, c) ==
    [call |-> c.call,
     cause |-> cause,
     existed |-> RowsOf(tasks, c.task.id) # {},
     matched |-> \E r \in RowsOf(tasks, c.task.id) : r.next_run_at = c.leaseUntil,
     err |-> CallErrors(<<c>>)[1]]

\* The tables, the give-ups and the worker's batch after the repo calls of
\* one task, issued at the time now.  A call waits for a row lock.
Outcome(w, h, cause, calls, rest) ==
    LET after == ApplyCalls(tasks, dead, calls, clock)
    IN /\ (calls # <<>>) => h.task.id \notin LockedIds
       /\ tasks' = after.tasks
       /\ dead' = after.dead
       /\ gaveUp' = [id \in Identities |->
                       IF \E i \in DOMAIN calls :
                            /\ calls[i].call = "DeadLetter"
                            /\ calls[i].task.id = id
                            /\ RowsOf(tasks, id) # {}
                            /\ RowsOf(after.tasks, id) = {}
                       THEN LET i == CHOOSE i \in DOMAIN calls :
                                        calls[i].call = "DeadLetter" /\ calls[i].task.id = id
                            IN [gone |-> TRUE, error |-> ErrorText(calls[i].err),
                                attempts |-> calls[i].task.attempts]
                       ELSE gaveUp[id]]
       /\ held' = [held EXCEPT ![w] = rest]
       /\ pc' = [pc EXCEPT ![w] = IF rest = {} THEN "idle" ELSE "process"]
       /\ result' = IF calls = <<>> THEN result ELSE CallRecord(cause, calls[Len(calls)])

\* processBatch, first loop, for one task of the batch: it is completed, or
\* put on the work list (a text work item carries no assets).
Classify(w, h, doc, assets) ==
    /\ pc[w] = "process"
    /\ h \in held[w]
    /\ h.stage = "leased"
    /\ LET calls == classify(h.task, doc, assets)
           item == HeldItem(h.task, "work", doc,
                            IF IsVLModel(h.task.id.model) THEN assets ELSE 0)
           rest == IF calls = <<>>
                   THEN (held[w] \ {h}) \cup {item}
                   ELSE held[w] \ {h}
       IN Outcome(w, h, "empty", calls, rest)
    /\ UNCHANGED <<clock, fetching, issuedMax>>
    /\ UNCHANGED engineVars

\* processBatch, the dispatched work: the provider call for a task returns
\* err (nil on success) and handleTaskResult records the outcome.
Execute(w, h, err, j) ==
    /\ pc[w] = "process"
    /\ h \in held[w]
    /\ h.stage = "work"
    /\ \A x \in held[w] : x.stage = "work"
    /\ Outcome(w, h, err.type, handleTaskResult(h.task, err, j), held[w] \ {h})
    /\ UNCHANGED <<clock, fetching, issuedMax>>
    /\ UNCHANGED engineVars

\* One lease duration of this configuration (Options.LockAhead).
CfgLockAhead == 1 * Second

JitterOf(t) == JitterChoices(expBackoff(BackoffBase, t.attempts + 1, BackoffMax))

\* ---------------------------------------------------------- specifications
\* One worker drains the queue while the host, the reconciler and the
\* backfill enqueue.
EnqueueAny == \E id \in EnqueueArgs, reason \in Reasons : Enqueue(id, reason)
OneFetchBegin == \E limit \in Limits : FetchBegin("w1", limit, CfgLockAhead, clock)
OneFetchCommit == FetchCommitUnlogged("w1")
OneHydrate == Hydrate("w1")
OneHydrateError == HydrateError("w1")
OneClassify ==
    \E h \in held["w1"], doc \in Docs, assets \in AssetCounts : Classify("w1", h, doc, assets)
OneExecute ==
    \E h \in held["w1"], err \in StoreExecErrors : \E j \in JitterOf(h.task) :
        Execute("w1", h, err, j)

NextStore ==
    \/ Tick
    \/ EnqueueAny
    \/ OneFetchBegin
    \/ OneFetchCommit
    \/ OneHydrate
    \/ OneHydrateError
    \/ OneClassify
    \/ OneExecute

SpecStore == InitWith(EnqueuedIdentities) /\ [][NextStore]_vars

\* Two workers drain a queue nobody adds to.
AnyFetchBegin == \E w \in Workers, limit \in Limits : FetchBegin(w, limit, CfgLockAhead, clock)
AnyFetchCommit == \E w \in Workers : FetchCommit(w)
AnyHydrate == \E w \in Workers : Hydrate(w)
AnyHydrateError == \E w \in Workers : HydrateError(w)
AnyClassify ==
    \E w \in Workers : \E h \in held[w], doc \in Docs, assets \in AssetCounts :
        Classify(w, h, doc, assets)
AnyExecute ==
    \E w \in Workers : \E h \in held[w], err \in ExecErrors : \E j \in JitterOf(h.task) :
        Execute(w, h, err, j)

NextWorkers ==
    \/ Tick
    \/ AnyFetchBegin
    \/ AnyFetchCommit
    \/ AnyHydrate
    \/ AnyHydrateError
    \/ AnyClassify
    \/ AnyExecute

SpecWorkers == InitWith(QueuedIdentities) /\ [][NextWorkers]_vars

\* Callers of FetchReady alone: each takes its time.Now() up to MaxNowLag
\* seconds before its statement runs, asks for any lease duration, and comes
\* back for more without reporting an outcome.
LockAheads == {0, 1 * Second, 2 * Second}
Nows == {n \in (clock - MaxNowLag) .. clock : n >= 0}
LaggedFetchBegin ==
    \E w \in Workers, limit \in Limits, la \in LockAheads, now \in Nows :
        FetchBegin(w, limit, la, now)

NextFetch ==
    \/ Tick
    \/ LaggedFetchBegin
    \/ AnyFetchCommit
    \/ AnyHydrateError

SpecFetch == InitWith(Identities) /\ [][NextFetch]_vars

\* The outcome functions alone: handleTaskResult and the first loop of
\* processBatch applied to one leased task, and their repo calls applied to a
\* table that holds that task's row.
MaxTaskAttempts == 3
StatusCodes == {400, 404, 408, 429, 500, 503, 599}
AllErrors ==
    {NilErr, ErrEntityNotFound, TimeoutErr}
        \cup {APIError(c) : c \in StatusCodes} \cup {RequestError(c) : c \in StatusCodes}
LeasedTasks == {TaskRow(id, "dirty", a, 1) : id \in Identities, a \in 0 .. MaxTaskAttempts}

Applied(name, t, input, calls) ==
    LET after == ApplyCalls({t}, {}, calls, 1)
    IN [call |-> name, task |-> t, input |-> input, calls |-> calls,
        tasks |-> after.tasks, dead |-> after.dead]

ApplyHandleTaskResult ==
    /\ \E t \in LeasedTasks, err \in AllErrors : \E j \in JitterOf(t) :
            result' = Applied("handleTaskResult", t, err, handleTaskResult(t, err, j))
    /\ UNCHANGED <<clock, tasks, dead, pc, fetching, held, issuedMax, gaveUp>>
    /\ UNCHANGED engineVars

ApplyClassify ==
    /\ \E t \in LeasedTasks, doc \in Docs, assets \in AssetCounts :
            result' = Applied("classify", t, [doc |-> doc, assets |-> assets],
                              classify(t, doc, assets))
    /\ UNCHANGED <<clock, tasks, dead, pc, fetching, held, issuedMax, gaveUp>>
    /\ UNCHANGED engineVars

NextClassify ==
    \/ ApplyHandleTaskResult
    \/ ApplyClassify

SpecClassify == InitWith({}) /\ [][NextClassify]_vars


\* ---------------------------------------------------------------- the tick
\* One DrainOnce of a worker, with what it returns and with the failures of
\* its collaborators: the store may fail any statement, the document builder
\* may fail for one entity type of the batch.
StoreError == "store error"
BuilderError == "builder error"
TickIdentities == {TextTask, WikiTask}
TickExecErrors == {NilErr, TimeoutErr, APIError(400)}

\* The entity types hydrateBatch calls the document builder for.
HydratedTypes(batch) ==
    {h.task.id.entity_type : h \in {x \in batch : HydratedDoc(x.task, "text") # ""}}

\* FetchReady fails: DrainOnce returns the error, no task is leased.
DrainFetchError(w) ==
    /\ pc[w] = "idle"
    /\ returned' = [returned EXCEPT ![w] = StoreError]
    /\ UNCHANGED <<clock, tasks, dead, pc, fetching, held, issuedMax, gaveUp, result>>
    /\ UNCHANGED <<vectors, documents, dirty, rec, bfState, bfRun, registry, dispatch>>

\* FetchReady returns: DrainOnce returns nil at once for an empty batch.
DrainFetchCommit(w) ==
    /\ FetchCommitRows(w)
    /\ returned' = [returned EXCEPT ![w] =
                      IF fetching[w].picked = {} THEN NoErr ELSE NotReturned]
    /\ UNCHANGED issuedMax
    /\ UNCHANGED <<vectors, documents, dirty, rec, bfState, bfRun, registry, dispatch>>

\* hydrateBatch returns the error of BuildSemanticDocument (or ListAssetURLs)
\* for the entity type et: DrainOnce returns it and processBatch never runs.
DrainHydrateError(w, et) ==
    /\ pc[w] = "hydrate"
    /\ et \in HydratedTypes(held[w])
    /\ pc' = [pc EXCEPT ![w] = "idle"]
    /\ held' = [held EXCEPT ![w] = {}]
    /\ returned' = [returned EXCEPT ![w] = BuilderError]
    /\ UNCHANGED <<clock, tasks, dead, fetching, issuedMax, gaveUp, result>>
    /\ UNCHANGED <<vectors, documents, dirty, rec, bfState, bfRun, registry, dispatch>>

\* The repo calls of one task; when the store fails them they change nothing
\* and their error is discarded (_ = repo.Complete(...)).  DrainOnce returns
\* nil after processBatch.
DrainOutcome(w, h, cause, calls, rest, storeFails) ==
    /\ IF storeFails
       THEN /\ calls # <<>>
            /\ held' = [held EXCEPT ![w] = rest]
            /\ pc' = [pc EXCEPT ![w] = IF rest = {} THEN "idle" ELSE "process"]
            /\ result' = [CallRecord(cause, calls[Len(calls)]) EXCEPT !.err = StoreError]
            /\ UNCHANGED <<tasks, dead, gaveUp>>
       ELSE Outcome(w, h, cause, calls, rest)
    /\ returned' = [returned EXCEPT ![w] = IF rest = {} THEN NoErr ELSE returned[w]]
    /\ UNCHANGED <<clock, fetching, issuedMax>>
    /\ UNCHANGED <<vectors, documents, dirty, rec, bfState, bfRun, registry, dispatch>>

DrainClassify(w, h, doc, assets, storeFails) ==
    /\ pc[w] = "process"
    /\ h \in held[w]
    /\ h.stage = "leased"
    /\ LET calls == classify(h.task, doc, assets)
           item == HeldItem(h.task, "work", doc,
                            IF IsVLModel(h.task.id.model) THEN assets ELSE 0)
           rest == IF calls = <<>>
                   THEN (held[w] \ {h}) \cup {item}
                   ELSE held[w] \ {h}
       IN DrainOutcome(w, h, "empty", calls, rest, storeFails)

DrainExecute(w, h, err, j, storeFails) ==
    /\ pc[w] = "process"
    /\ h \in held[w]
    /\ h.stage = "work"
    /\ \A x \in held[w] : x.stage = "work"
    /\ DrainOutcome(w, h, err.type, handleTaskResult(h.task, err, j),
                    held[w] \ {h}, storeFails)

TickFetchBegin == \E limit \in Limits : FetchBegin("w1", limit, CfgLockAhead, clock)
TickFetchError == DrainFetchError("w1")
TickFetchCommit == DrainFetchCommit("w1")
TickHydrate == Hydrate("w1")
TickHydrateError == \E et \in {id.entity_type : id \in TickIdentities} : DrainHydrateError("w1", et)
TickClassify ==
    \E h \in held["w1"], doc \in Docs, storeFails \in BOOLEAN :
        DrainClassify("w1", h, doc, 0, storeFails)
TickExecute ==
    \E h \in held["w1"], err \in TickExecErrors, storeFails \in BOOLEAN :
        \E j \in JitterOf(h.task) : DrainExecute("w1", h, err, j, storeFails)

NextTick ==
    \/ Tick
    \/ TickFetchBegin
    \/ TickFetchError
    \/ TickFetchCommit
    \/ TickHydrate
    \/ TickHydrateError
    \/ TickClassify
    \/ TickExecute

SpecTick == InitWith(TickIdentities) /\ [][NextTick]_vars

\* ------------------------------------------------------------- the backoff
\* The retry branch of handleTaskResult and Repo.Fail for every base, cap and
\* attempt of the ranges below, in duration units (Second units to a second).
MaxBackoffBase == 8
MaxBackoffCap == 16
BackoffBases == 1 .. MaxBackoffBase
BackoffCaps == 1 .. MaxBackoffCap
BackoffAttempts == 1 .. MaxTaskAttempts

\* handleTaskResult, retry branch, for the failure that makes attempt number
\* `attempt`: the backoff passed to Fail and the row Fail leaves at time 1.
RetryOf(base, cap, attempt, j) ==
    LET t == TaskRow(TextTask, "dirty", attempt - 1, 1)
        d == expBackoff(base, attempt, cap)
        backoff == addJitter(d, j)
        after == FailRows({t}, t.id, t.next_run_at, backoff, 1)
    IN [call |-> "Retry", base |-> base, cap |-> cap, attempt |-> attempt,
        d |-> d, backoff |-> backoff, tasks |-> after]

ApplyRetry ==
    /\ \E base \in BackoffBases, cap \in BackoffCaps, attempt \in BackoffAttempts :
          \E j \in JitterChoices(expBackoff(base, attempt, cap)) :
              result' = RetryOf(base, cap, attempt, j)
    /\ UNCHANGED <<clock, tasks, dead, pc, fetching, held, issuedMax, gaveUp>>
    /\ UNCHANGED engineVars

SpecBackoff == InitWith({}) /\ [][ApplyRetry]_vars

\* ------------------------------------------------------------- the backfill
\* backfillOnce, the semantic loop, for one tracked entity type, one
\* supported language and two active models; no lexical entity type is
\* configured.  A partition is a (model, entity_type) pair of that language.
Partition(model, et) == [model |-> model, entity_type |-> et]
ActiveModels == {"text-model", "vl-model"}
SemanticTypes == {"gallery"}
Partitions == {Partition(m, et) : m \in ActiveModels, et \in SemanticTypes}

\* The pages the host's pager serves for an entity type: the cursor is the
\* number of pages already served, and the last page comes with done = true.
\* The first page carries an id that is blank.
BackfillPages == <<{"1", " "}, {"2"}>>
NumPages == Len(BackfillPages)
ListPage(cursor) ==
    IF cursor < NumPages
    THEN [ids |-> BackfillPages[cursor + 1], next |-> cursor + 1,
          done |-> (cursor + 1 = NumPages)]
    ELSE [ids |-> {}, next |-> cursor, done |-> TRUE]
PagerError == "pager error"

\* The largest BackfillMaxPages a tick is given.
MaxPages == 2

\* The vectors stored before the backfill starts.
EmbeddedChoices == {VLTask, TextTask}

\* A row of embedding_vectors_backfill_state with the column defaults.
BackfillRow(p) ==
    [model |-> p.model, entity_type |-> p.entity_type, cursor |-> 0,
     state |-> "running", last_error |-> NoErr]
RowOfPartition(B, p) ==
    CHOOSE r \in B : r.model = p.model /\ r.entity_type = p.entity_type

\* ensureAndGetVecBackfillState: INSERT ... ON CONFLICT DO NOTHING.
EnsureRow(B, p) ==
    IF \E r \in B : r.model = p.model /\ r.entity_type = p.entity_type
    THEN B
    ELSE B \cup {BackfillRow(p)}

\* UPDATE ... SET last_error = $4, state = 'failed' WHERE partition.
MarkFailed(B, p, msg) ==
    { IF r.model = p.model /\ r.entity_type = p.entity_type
      THEN [r EXCEPT !.last_error = msg, !.state = "failed"]
      ELSE r : r \in B }

\* UPDATE ... SET cursor = $4, state = 'done' or 'running', last_error = NULL
\* WHERE partition.
AdvanceRow(B, p, next, done) ==
    { IF r.model = p.model /\ r.entity_type = p.entity_type
      THEN [r EXCEPT !.cursor = next,
                     !.state = IF done THEN "done" ELSE "running",
                     !.last_error = NoErr]
      ELSE r : r \in B }

\* Variant: the ids with a stored vector are returned as well.
FilterMissingKeepsEmbedded(V, et, model, ids) ==
    {id \in ids : TrimSpace(id) # ""}

\* FilterMissingEmbeddings: the ids with no row in embedding_vectors for the
\* entity type and the model, an id that is blank after trimming left out.
FilterMissingEmbeddings(V, et, model, ids) ==
    {id \in ids : Ident(et, id, model) \notin V /\ TrimSpace(id) # ""}

\* EnqueueMany: Enqueue's upsert for every id of the list.
RECURSIVE EnqueueMany(_, _, _, _, _, _)
EnqueueMany(T, et, ids, model, reason, now) ==
    IF ids = {}
    THEN T
    ELSE LET id == CHOOSE x \in ids : TRUE
         IN EnqueueMany(EnqueueRows(T, Ident(et, id, model), reason, now),
                        et, ids \ {id}, model, reason, now)

\* backfillOnce starts: maxPages <= 0 returns at once.
BackfillBegin(w, maxPages) ==
    /\ bfRun[w] = NoRun
    /\ maxPages > 0
    /\ bfRun' = [bfRun EXCEPT ![w] =
                    [pc |-> "loop", todo |-> Partitions, pagesDone |-> 0,
                     maxPages |-> maxPages]]
    /\ UNCHANGED <<clock, tasks, dead, pc, fetching, held, issuedMax, gaveUp, result>>
    /\ UNCHANGED <<returned, vectors, documents, dirty, rec, bfState, registry, dispatch>>

\* The loop is over, or pagesDone >= maxPages: return nil.
BackfillReturn(w) ==
    /\ bfRun[w].pc = "loop"
    /\ bfRun[w].pagesDone >= bfRun[w].maxPages \/ bfRun[w].todo = {}
    /\ bfRun' = [bfRun EXCEPT ![w] = NoRun]
    /\ UNCHANGED <<clock, tasks, dead, pc, fetching, held, issuedMax, gaveUp, result>>
    /\ UNCHANGED <<returned, vectors, documents, dirty, rec, bfState, registry, dispatch>>

\* The next partition of the loop: its row is ensured and read, and only a
\* partition whose state is "done" is skipped.
BackfillEnsure(w, p) ==
    /\ bfRun[w].pc = "loop"
    /\ bfRun[w].pagesDone < bfRun[w].maxPages
    /\ p \in bfRun[w].todo
    /\ bfState' = EnsureRow(bfState, p)
    /\ LET row == RowOfPartition(bfState', p)
       IN bfRun' = [bfRun EXCEPT ![w] =
                      IF row.state = "done"
                      THEN [@ EXCEPT !.todo = @ \ {p}]
                      ELSE [pc |-> "list", todo |-> bfRun[w].todo,
                            pagesDone |-> bfRun[w].pagesDone,
                            maxPages |-> bfRun[w].maxPages,
                            part |-> p, cursor |-> row.cursor]]
    /\ UNCHANGED <<clock, tasks, dead, pc, fetching, held, issuedMax, gaveUp, result>>
    /\ UNCHANGED <<returned, vectors, documents, dirty, rec, registry, dispatch>>

\* The pager fails: last_error and state = 'failed' are written and the tick
\* returns the error.
BackfillListError(w) ==
    /\ bfRun[w].pc = "list"
    /\ bfState' = MarkFailed(bfState, bfRun[w].part, PagerError)
    /\ bfRun' = [bfRun EXCEPT ![w] = NoRun]
    /\ UNCHANGED <<clock, tasks, dead, pc, fetching, held, issuedMax, gaveUp, result>>
    /\ UNCHANGED <<returned, vectors, documents, dirty, rec, registry, dispatch>>

\* The pager serves the page at the cursor the tick has read.
BackfillList(w) ==
    /\ bfRun[w].pc = "list"
    /\ LET page == ListPage(bfRun[w].cursor)
       IN bfRun' = [bfRun EXCEPT ![w] =
                      [pc |-> "enqueue", todo |-> bfRun[w].todo,
                       pagesDone |-> bfRun[w].pagesDone,
                       maxPages |-> bfRun[w].maxPages, part |-> bfRun[w].part,
                       ids |-> page.ids, next |-> page.next, done |-> page.done]]
    /\ UNCHANGED <<clock, tasks, dead, pc, fetching, held, issuedMax, gaveUp, result>>
    /\ UNCHANGED <<returned, vectors, documents, dirty, rec, bfState, registry, dispatch>>

\* len(ids) > 0: FilterMissingEmbeddings, then EnqueueMany of what is missing.
BackfillEnqueue(w) ==
    /\ bfRun[w].pc = "enqueue"
    /\ LET p == bfRun[w].part
           missing == FilterMissingEmbeddings(vectors, p.entity_type, p.model,
                                              bfRun[w].ids)
       IN tasks' = IF bfRun[w].ids = {}
                   THEN tasks
                   ELSE EnqueueMany(tasks, p.entity_type, missing, p.model,
                                    "model_backfill", clock)
    /\ bfRun' = [bfRun EXCEPT ![w] =
                    [pc |-> "advance", todo |-> bfRun[w].todo,
                     pagesDone |-> bfRun[w].pagesDone,
                     maxPages |-> bfRun[w].maxPages, part |-> bfRun[w].part,
                     next |-> bfRun[w].next, done |-> bfRun[w].done]]
    /\ UNCHANGED <<clock, dead, pc, fetching, held, issuedMax, gaveUp, result>>
    /\ UNCHANGED <<returned, vectors, documents, dirty, rec, bfState, registry, dispatch>>

\* FilterMissingEmbeddings or EnqueueMany fails in the store: the tick returns
\* the error and the cursor stays.
BackfillEnqueueError(w) ==
    /\ bfRun[w].pc = "enqueue"
    /\ bfRun[w].ids # {}
    /\ bfRun' = [bfRun EXCEPT ![w] = NoRun]
    /\ UNCHANGED <<clock, tasks, dead, pc, fetching, held, issuedMax, gaveUp, result>>
    /\ UNCHANGED <<returned, vectors, documents, dirty, rec, bfState, registry, dispatch>>

\* The cursor and the state are written, whatever the row holds by now, and
\* the page is counted.
BackfillAdvance(w) ==
    /\ bfRun[w].pc = "advance"
    /\ bfState' = AdvanceRow(bfState, bfRun[w].part, bfRun[w].next, bfRun[w].done)
    /\ bfRun' = [bfRun EXCEPT ![w] =
                    [pc |-> "loop", todo |-> bfRun[w].todo \ {bfRun[w].part},
                     pagesDone |-> bfRun[w].pagesDone + 1,
                     maxPages |-> bfRun[w].maxPages]]
    /\ UNCHANGED <<clock, tasks, dead, pc, fetching, held, issuedMax, gaveUp, result>>
    /\ UNCHANGED <<returned, vectors, documents, dirty, rec, registry, dispatch>>

BackfillInit ==
    /\ QueueInit({})
    /\ vectors \in SUBSET EmbeddedChoices
    /\ documents = {}
    /\ dirty = {}
    /\ rec = NoPass
    /\ bfState = {}
    /\ bfRun = [w \in Workers |-> NoRun]
    /\ registry = {}
    /\ dispatch = NoBatch

BackfillStep(w) ==
    \/ \E maxPages \in 1 .. MaxPages : BackfillBegin(w, maxPages)
    \/ BackfillReturn(w)
    \/ \E p \in Partitions : BackfillEnsure(w, p)
    \/ BackfillListError(w)
    \/ BackfillList(w)
    \/ BackfillEnqueue(w)
    \/ BackfillEnqueueError(w)
    \/ BackfillAdvance(w)

\* One instance runs backfill ticks, one after the other.
NextBackfill == BackfillStep("w1")

SpecBackfill == BackfillInit /\ [][NextBackfill]_vars

\* Two instances run backfill ticks at the same time.
NextBackfillPair == \E w \in Workers : BackfillStep(w)

SpecBackfillPair == BackfillInit /\ [][NextBackfillPair]_vars

\* ----------------------------------------------------------- the reconciler
\* processDirtyOnce over the search_dirty table.  An entity is an
\* (entity_type, entity_id) pair of the one supported language; "gallery" is
\* tracked lexically and semantically, "wiki" lexically only, and one entity
\* has a blank entity type.
Entity(et, eid) == [entity_type |-> et, entity_id |-> eid]
LexicalTypes == {"gallery", "wiki"}
DirtyEntities == {Entity("gallery", "1"), Entity("wiki", "1"), Entity(" ", "1")}
Marker(e, deleted, at) ==
    [entity_type |-> e.entity_type, entity_id |-> e.entity_id,
     is_deleted |-> deleted, updated_at |-> at]
EntityOf(r) == Entity(r.entity_type, r.entity_id)
EntitiesOf(rows) == {EntityOf(r) : r \in rows}

\* The largest DirtyBatchSize a pass is given, and the latest time of a mark.
MaxDirtyBatch == 2
MaxDirtyClock == 1

\* What the lexical builder answers for an id: no entry, an empty string or a
\* text.
LexicalAnswers == {"absent", "", "text"}

\* The host's upsert into search_dirty, keyed by the entity.
MarkRows(D, e, deleted, now) ==
    {m \in D : EntityOf(m) # e} \cup {Marker(e, deleted, now)}

\* DeleteSearchDocuments: DELETE FROM search_documents WHERE entity.
DeleteSearchDocuments(S, e) == S \ {e}

\* Variant: only the vectors of the text model are deleted.
DeleteEmbeddingVectorsOneModel(V, e) ==
    {v \in V : ~(v.entity_type = e.entity_type /\ v.entity_id = e.entity_id
                 /\ v.model = "text-model")}

\* DeleteEmbeddingVectorsForEntity: DELETE FROM embedding_vectors WHERE
\* entity, whatever the model.
DeleteEmbeddingVectorsForEntity(V, e) ==
    {v \in V : ~(v.entity_type = e.entity_type /\ v.entity_id = e.entity_id)}

\* DeleteAllForEntity: the entity's rows of embedding_tasks, whatever the model.
DeleteAllForEntity(T, e) ==
    {r \in T : ~(r.id.entity_type = e.entity_type /\ r.id.entity_id = e.entity_id)}

\* UpsertSearchDocuments for the builder's answers: a text is upserted, an
\* empty document is deleted, an id without an entry is left alone.
UpsertSearchDocuments(S, answers) ==
    (S \cup {e \in DOMAIN answers : answers[e] = "text"})
        \ {e \in DOMAIN answers : answers[e] = ""}

\* Variant: the ids that have a stored vector are not enqueued.
DirtyEnqueueMissingOnly(T, V, et, ids, model, now) ==
    EnqueueMany(T, et, FilterMissingEmbeddings(V, et, model, ids), model, "dirty", now)

\* repo.EnqueueMany(ctx, et, ids, model, lang, "dirty"): the stored vectors
\* are not looked at.
DirtyEnqueue(T, V, et, ids, model, now) ==
    EnqueueMany(T, et, ids, model, "dirty", now)

\* The loop over the groups and the active models: pairs holds the
\* (entity type, model) pairs still to do.
RECURSIVE FanOut(_, _, _, _, _)
FanOut(T, V, markers, pairs, now) ==
    IF pairs = {}
    THEN T
    ELSE LET p == CHOOSE x \in pairs : TRUE
             ids == {r.entity_id : r \in {x \in markers : x.entity_type = p.entity_type}}
         IN FanOut(DirtyEnqueue(T, V, p.entity_type, ids, p.model, now),
                   V, markers, pairs \ {p}, now)
FanOutPairs(markers, models) ==
    {Partition(m, et) : m \in models, et \in {r.entity_type : r \in markers}}

\* Variant: only the markers of deleted entities are cleared.
ClearMarkersDeletedOnly(D, batch) ==
    {m \in D : EntityOf(m) \notin EntitiesOf({r \in batch : r.is_deleted})}

\* DELETE FROM search_dirty WHERE entity, for every row of the batch.
ClearMarkers(D, batch) == {m \in D : EntityOf(m) \notin EntitiesOf(batch)}

\* The markers of a batch the three stages work on.
DeletedOf(batch) == {r \in batch : r.is_deleted}
LexicalOf(batch) == {r \in batch : ~r.is_deleted /\ r.entity_type \in LexicalTypes}
SemanticOf(batch) == {r \in batch : ~r.is_deleted /\ r.entity_type \in SemanticTypes}

\* Time passes between the host's marks, up to MaxDirtyClock.
DirtyTick ==
    /\ clock < MaxDirtyClock
    /\ clock' = clock + 1
    /\ UNCHANGED <<tasks, dead, pc, fetching, held, issuedMax, gaveUp, result>>
    /\ UNCHANGED engineVars

\* The host marks an entity changed or deleted.
MarkDirty(e, deleted) ==
    /\ dirty' = MarkRows(dirty, e, deleted, clock)
    /\ UNCHANGED <<clock, tasks, dead, pc, fetching, held, issuedMax, gaveUp, result>>
    /\ UNCHANGED <<returned, vectors, documents, rec, bfState, bfRun, registry, dispatch>>

\* SELECT ... ORDER BY updated_at ASC LIMIT $1; rows with a blank field are
\* skipped; an empty batch returns nil.
PassFetch(limit, rows) ==
    /\ rec = NoPass
    /\ limit > 0
    /\ rows \subseteq dirty
    /\ Cardinality(rows) = Min(limit, Cardinality(dirty))
    /\ \A a \in rows, b \in dirty \ rows : a.updated_at <= b.updated_at
    /\ LET batch == {r \in rows : /\ TrimSpace(r.entity_type) # ""
                                  /\ TrimSpace(r.entity_id) # ""}
       IN /\ batch # {}
          /\ rec' = [pc |-> "delete", batch |-> batch, todo |-> DeletedOf(batch)]
    /\ UNCHANGED <<clock, tasks, dead, pc, fetching, held, issuedMax, gaveUp, result>>
    /\ UNCHANGED <<returned, vectors, documents, dirty, bfState, bfRun, registry, dispatch>>

\* Deletions first: the document, the vectors and the tasks of one deleted
\* marker.
PassDelete(r) ==
    /\ rec.pc = "delete"
    /\ r \in rec.todo
    /\ documents' = DeleteSearchDocuments(documents, EntityOf(r))
    /\ vectors' = DeleteEmbeddingVectorsForEntity(vectors, EntityOf(r))
    /\ tasks' = DeleteAllForEntity(tasks, EntityOf(r))
    /\ rec' = [rec EXCEPT !.todo = @ \ {r}]
    /\ UNCHANGED <<clock, dead, pc, fetching, held, issuedMax, gaveUp, result>>
    /\ UNCHANGED <<returned, dirty, bfState, bfRun, registry, dispatch>>

\* One of the three statements of a deleted marker fails after k of them:
\* the pass returns the error.
PassDeleteError(r, k) ==
    /\ rec.pc = "delete"
    /\ r \in rec.todo
    /\ documents' = IF k >= 1 THEN DeleteSearchDocuments(documents, EntityOf(r))
                              ELSE documents
    /\ vectors' = IF k >= 2 THEN DeleteEmbeddingVectorsForEntity(vectors, EntityOf(r))
                            ELSE vectors
    /\ rec' = NoPass
    /\ UNCHANGED <<clock, tasks, dead, pc, fetching, held, issuedMax, gaveUp, result>>
    /\ UNCHANGED <<returned, dirty, bfState, bfRun, registry, dispatch>>

\* Lexical updates: BuildLexicalString and UpsertSearchDocuments for every
\* group of non-deleted markers of a lexical entity type.
PassLexical(answers) ==
    /\ rec.pc = "delete"
    /\ rec.todo = {}
    /\ DOMAIN answers = EntitiesOf(LexicalOf(rec.batch))
    /\ documents' = UpsertSearchDocuments(documents, answers)
    /\ rec' = [pc |-> "semantic", batch |-> rec.batch]
    /\ UNCHANGED <<clock, tasks, dead, pc, fetching, held, issuedMax, gaveUp, result>>
    /\ UNCHANGED <<returned, vectors, dirty, bfState, bfRun, registry, dispatch>>

\* The builder or the upsert fails for a group, the groups of the entity
\* types in done having gone through: the pass returns the error.
PassLexicalError(answers, done) ==
    /\ rec.pc = "delete"
    /\ rec.todo = {}
    /\ done # {r.entity_type : r \in LexicalOf(rec.batch)}
    /\ DOMAIN answers = {e \in EntitiesOf(LexicalOf(rec.batch)) : e.entity_type \in done}
    /\ documents' = UpsertSearchDocuments(documents, answers)
    /\ rec' = NoPass
    /\ UNCHANGED <<clock, tasks, dead, pc, fetching, held, issuedMax, gaveUp, result>>
    /\ UNCHANGED <<returned, vectors, dirty, bfState, bfRun, registry, dispatch>>

\* Semantic: EnqueueMany for every group and every active model.
PassSemantic ==
    /\ rec.pc = "semantic"
    /\ tasks' = FanOut(tasks, vectors, SemanticOf(rec.batch),
                       FanOutPairs(SemanticOf(rec.batch), ActiveModels), clock)
    /\ rec' = [pc |-> "clear", batch |-> rec.batch]
    /\ UNCHANGED <<clock, dead, pc, fetching, held, issuedMax, gaveUp, result>>
    /\ UNCHANGED <<returned, vectors, documents, dirty, bfState, bfRun, registry, dispatch>>

\* EnqueueMany fails, the models in done having gone through: the pass
\* returns the error.
PassSemanticError(done) ==
    /\ rec.pc = "semantic"
    /\ SemanticOf(rec.batch) # {}
    /\ done # ActiveModels
    /\ tasks' = FanOut(tasks, vectors, SemanticOf(rec.batch),
                       FanOutPairs(SemanticOf(rec.batch), done), clock)
    /\ rec' = NoPass
    /\ UNCHANGED <<clock, dead, pc, fetching, held, issuedMax, gaveUp, result>>
    /\ UNCHANGED <<returned, vectors, documents, dirty, bfState, bfRun, registry, dispatch>>

\* Clear dirty rows: one transaction deletes the marker of every row of the
\* batch and commits.
PassClear ==
    /\ rec.pc = "clear"
    /\ dirty' = ClearMarkers(dirty, rec.batch)
    /\ rec' = NoPass
    /\ UNCHANGED <<clock, tasks, dead, pc, fetching, held, issuedMax, gaveUp, result>>
    /\ UNCHANGED <<returned, vectors, documents, bfState, bfRun, registry, dispatch>>

\* Begin, a DELETE or Commit fails: the transaction is rolled back.
PassClearError ==
    /\ rec.pc = "clear"
    /\ rec' = NoPass
    /\ UNCHANGED <<clock, tasks, dead, pc, fetching, held, issuedMax, gaveUp, result>>
    /\ UNCHANGED <<returned, vectors, documents, dirty, bfState, bfRun, registry, dispatch>>

\* The deleted markers a pass in its deletion stage has still to process.
PassTodo == IF rec.pc = "delete" THEN rec.todo ELSE {}

\* Every entity has a document, the gallery entity has a vector per model and
\* may have a task queued.
ReconcileInit ==
    /\ QueueInit({VLTask})
    /\ vectors = {VLTask, Ident("gallery", "1", "text-model")}
    /\ documents = {e \in DirtyEntities : TrimSpace(e.entity_type) # ""}
    /\ dirty = {}
    /\ rec = NoPass
    /\ bfState = {}
    /\ bfRun = [w \in Workers |-> NoRun]
    /\ registry = {}
    /\ dispatch = NoBatch

NextReconcile ==
    \/ DirtyTick
    \/ \E e \in DirtyEntities, deleted \in BOOLEAN : MarkDirty(e, deleted)
    \/ \E limit \in 1 .. MaxDirtyBatch : \E rows \in SUBSET dirty : PassFetch(limit, rows)
    \/ \E r \in PassTodo : PassDelete(r)
    \/ \E r \in PassTodo : \E k \in 0 .. 2 : PassDeleteError(r, k)
    \/ \E es \in SUBSET DirtyEntities : \E answers \in [es -> LexicalAnswers] :
          PassLexical(answers)
    \/ \E es \in SUBSET DirtyEntities : \E answers \in [es -> LexicalAnswers] :
          \E done \in SUBSET LexicalTypes : PassLexicalError(answers, done)
    \/ PassSemantic
    \/ \E done \in SUBSET ActiveModels : PassSemanticError(done)
    \/ PassClear
    \/ PassClearError

SpecReconcile == ReconcileInit /\ [][NextReconcile]_vars

\* ------------------------------------------------------------------ fusion
\* FuseRRF over ranked lists of RRFKeys.  Scores are kept exact: a score is
\* the number of RRFScale(k)-ths, RRFScale(k) being a common multiple of the
\* denominators k + rank; weights are whole numbers.
RRFKey(et, eid, lang, model) ==
    [entity_type |-> et, entity_id |-> eid, language |-> lang, model |-> model]
KeyA == RRFKey("gallery", "1", "en", "")
KeyB == RRFKey("gallery", "2", "en", "")
KeyC == RRFKey("wiki", "1", "en", "")
\* KeyA with a blank model (the same identity), and in another language (a
\* different identity with the same entity type and id).
KeyABlank == RRFKey("gallery", "1", "en", " ")
KeyAFrench == RRFKey("gallery", "1", "fr", "")
RRFKeys == {KeyA, KeyB, KeyC, KeyABlank, KeyAFrench}

MaxListLen == 2
MaxLists == 2
RankedLists == UNION {[1 .. n -> RRFKeys] : n \in 0 .. MaxListLen}
ListsInputs == UNION {[1 .. n -> RankedLists] : n \in 1 .. MaxLists}
\* RRFOptions.K and RRFOptions.Weights of the inputs.
RRFKs == {0, 1, 60}
WeightsInputs == {<<>>, <<2>>, <<0, 2>>, <<2, 1>>}
DefaultRRFK == 60

\* keyString: the four fields, each trimmed.
keyString(k) ==
    <<TrimSpace(k.entity_type), TrimSpace(k.entity_id), TrimSpace(k.language),
      TrimSpace(k.model)>>

\* k <= 0 becomes 60.
RRFK(k) == IF k <= 0 THEN DefaultRRFK ELSE k

\* The weight of list li (counted from 1): 1.0 unless weights has a positive
\* entry for it; empty weights are all 1.0.
RRFWeight(weights, li) ==
    IF li <= Len(weights) /\ weights[li] > 0 THEN weights[li] ELSE 1

RECURSIVE RRFScaleTo(_, _)
RRFScaleTo(k, n) == IF n = 0 THEN 1 ELSE (k + n) * RRFScaleTo(k, n - 1)
RRFScale(k) == RRFScaleTo(k, MaxListLen)

\* Variant: the rank is the 0-based index.
RRFTermZeroBased(w, k, pos) == (w * RRFScale(k)) \div (k + pos - 1)

\* w / float32(k + rank) for the item at position pos, rank = i + 1.
RRFTerm(w, k, pos) == (w * RRFScale(k)) \div (k + pos)

\* The positions <<li, i>> of the lists.
RRFPositions(lists) ==
    {p \in (1 .. Len(lists)) \X (1 .. MaxListLen) : p[2] <= Len(lists[p[1]])}

\* scores[ks]: every position that holds the key adds its term.
RECURSIVE RRFScore(_, _, _, _, _)
RRFScore(lists, weights, k, ks, P) ==
    IF P = {}
    THEN 0
    ELSE LET p == CHOOSE x \in P : TRUE
         IN (IF keyString(lists[p[1]][p[2]]) = ks
             THEN RRFTerm(RRFWeight(weights, p[1]), k, p[2])
             ELSE 0) + RRFScore(lists, weights, k, ks, P \ {p})

\* example[ks]: the item of the last position that holds the key.
RRFExample(lists, ks) ==
    LET P == {p \in RRFPositions(lists) : keyString(lists[p[1]][p[2]]) = ks}
        last == CHOOSE p \in P : \A q \in P :
                    q[1] < p[1] \/ (q[1] = p[1] /\ q[2] <= p[2])
    IN lists[last[1]][last[2]]

\* The hits before sorting: one per key string.
RRFHits(lists, weights, k) ==
    {[key |-> RRFExample(lists, ks),
      score |-> RRFScore(lists, weights, RRFK(k), ks, RRFPositions(lists))] :
        ks \in {keyString(lists[p[1]][p[2]]) : p \in RRFPositions(lists)}}

\* The comparison of sort.Slice: score descending, then EntityType, then
\* EntityID.
RRFLess(a, b) ==
    IF a.score = b.score
    THEN IF a.key.entity_type = b.key.entity_type
         THEN StrRank(a.key.entity_id) < StrRank(b.key.entity_id)
         ELSE StrRank(a.key.entity_type) < StrRank(b.key.entity_type)
    ELSE a.score > b.score

\* The orders sort.Slice can leave the hits in: hits the comparison does not
\* tell apart come in any order.
RRFOrders(H) ==
    {s \in [1 .. Cardinality(H) -> H] :
        /\ \A i, j \in 1 .. Cardinality(H) : i # j => s[i] # s[j]
        /\ \A i, j \in 1 .. Cardinality(H) : i < j => ~RRFLess(s[j], s[i])}

\* The call to fuse: the lists and the options.
RRFInput(lists, k, weights) ==
    [call |-> "FuseRRF input", lists |-> lists, k |-> k, weights |-> weights]

FuseRRF(lists, k, weights, out) ==
    /\ result = RRFInput(lists, k, weights)
    /\ out \in RRFOrders(RRFHits(lists, weights, k))
    /\ result' = [call |-> "FuseRRF", lists |-> lists, k |-> k,
                  weights |-> weights, out |-> out]
    /\ UNCHANGED <<clock, tasks, dead, pc, fetching, held, issuedMax, gaveUp>>
    /\ UNCHANGED engineVars

ApplyFuseRRF ==
    /\ result.call = "FuseRRF input"
    /\ \E out \in RRFOrders(RRFHits(result.lists, result.weights, result.k)) :
          FuseRRF(result.lists, result.k, result.weights, out)

FusionInit ==
    /\ clock = 0
    /\ tasks = {}
    /\ dead = {}
    /\ pc = [w \in Workers |-> "idle"]
    /\ fetching = [w \in Workers |-> NoFetch]
    /\ held = [w \in Workers |-> {}]
    /\ issuedMax = [id \in Identities |-> 0]
    /\ gaveUp = [id \in Identities |-> NoGiveUp]
    /\ result \in {RRFInput(lists, k, weights) :
                      lists \in ListsInputs, k \in RRFKs, weights \in WeightsInputs}
    /\ returned = [w \in Workers |-> NotReturned]
    /\ vectors = {}
    /\ documents = {}
    /\ dirty = {}
    /\ rec = NoPass
    /\ bfState = {}
    /\ bfRun = [w \in Workers |-> NoRun]
    /\ registry = {}
    /\ dispatch = NoBatch

SpecFusion == FusionInit /\ [][ApplyFuseRRF]_vars

\* ------------------------------------------------------------------ search
\* Search and Typeahead.  A query is a sequence of code points; the backends
\* (LexicalSearch over trigrams, PGroongaSearch, FTSSearch, SemanticSearch) are
\* the environment: a call answers with an error or with a list of hits.
MaxQueryLen == 4
MaxPrefixLen == 2
MaxHits == 2
QueryRunes == {32, 55, 97, 233, 12290, 28450}
Queries == UNION {[1 .. n -> QueryRunes] : n \in 0 .. MaxQueryLen}
\* What is typed so far: the shorter queries.
Prefixes == UNION {[1 .. n -> QueryRunes] : n \in 0 .. MaxPrefixLen}
SearchLanguages == {"ja", "KO", "en"}
DefaultMinSimilarity == 10
SimilarityFloors == {0, 30}
HitScores == {20, 40}

\* unicode.IsSpace, unicode.IsLetter and unicode.IsNumber on the code points
\* up to U+FFFF that queries are made of here.
IsSpace(r) ==
    \/ r \in 9 .. 13
    \/ r \in {32, 133, 160, 5760, 8232, 8233, 8239, 8287, 12288}
    \/ r \in 8192 .. 8202
IsLetter(r) ==
    \/ r \in 65 .. 90
    \/ r \in 97 .. 122
    \/ r \in (192 .. 255) \ {215, 247}
    \/ r \in 12353 .. 12438
    \/ r \in 12449 .. 12538
    \/ r \in 19968 .. 40959
    \/ r \in 44032 .. 55203
IsNumber(r) ==
    \/ r \in 48 .. 57
    \/ r \in {178, 179, 185, 188, 189, 190, 12295}
    \/ r \in 65296 .. 65305

ToLower(s) ==
    CASE s = "JA" -> "ja"
      [] s = "ZH" -> "zh"
      [] s = "KO" -> "ko"
      [] OTHER -> s

containsASCIIAlphaNum(s) ==
    \E i \in 1 .. Len(s) :
        \/ s[i] >= 97 /\ s[i] <= 122
        \/ s[i] >= 65 /\ s[i] <= 90
        \/ s[i] >= 48 /\ s[i] <= 57

containsCJKScript(s) ==
    \E i \in 1 .. Len(s) :
        \/ s[i] >= 12288 /\ s[i] <= 12351
        \/ s[i] >= 12352 /\ s[i] <= 12447
        \/ s[i] >= 12448 /\ s[i] <= 12543
        \/ s[i] >= 12784 /\ s[i] <= 12799
        \/ s[i] >= 19968 /\ s[i] <= 40959
        \/ s[i] >= 44032 /\ s[i] <= 55215

\* strings.TrimSpace, strings.Fields and strings.Join on code points.
TrimSpaceRunes(s) ==
    IF \A i \in 1 .. Len(s) : IsSpace(s[i])
    THEN <<>>
    ELSE LET first == CHOOSE i \in 1 .. Len(s) :
                          ~IsSpace(s[i]) /\ \A j \in 1 .. i - 1 : IsSpace(s[j])
             last == CHOOSE i \in 1 .. Len(s) :
                         ~IsSpace(s[i]) /\ \A j \in i + 1 .. Len(s) : IsSpace(s[j])
         IN SubSeq(s, first, last)

RECURSIVE Fields(_)
Fields(s) ==
    IF s = <<>>
    THEN <<>>
    ELSE IF IsSpace(Head(s))
         THEN Fields(Tail(s))
         ELSE LET n == IF \E i \in 1 .. Len(s) : IsSpace(s[i])
                       THEN (CHOOSE i \in 1 .. Len(s) :
                                 IsSpace(s[i]) /\ \A j \in 1 .. i - 1 : ~IsSpace(s[j])) - 1
                       ELSE Len(s)
              IN <<SubSeq(s, 1, n)>> \o Fields(SubSeq(s, n + 1, Len(s)))

RECURSIVE Join(_, _)
Join(elems, sep) ==
    IF elems = <<>>
    THEN <<>>
    ELSE IF Len(elems) = 1
         THEN elems[1]
         ELSE elems[1] \o sep \o Join(Tail(elems), sep)

normalizeWhitespace(s) ==
    LET q == TrimSpaceRunes(s)
    IN IF q = <<>> THEN <<>> ELSE Join(Fields(q), <<32>>)

\* Variant: any character at all passes.
hasAnyRune(s) == s # <<>>

hasAnyLetterOrNumber(s) ==
    \E i \in 1 .. Len(s) : IsLetter(s[i]) \/ IsNumber(s[i])

isCJKLanguage(lang) == ToLower(TrimSpace(lang)) \in {"ja", "zh", "ko"}

\* What a backend answers: an error, or hits best first.  A hit carries the
\* language the backend was asked for; a backend returns an identity at most
\* once and at most limit hits.
BackendError == [err |-> TRUE, hits |-> <<>>]
BackendHits(hits) == [err |-> FALSE, hits |-> hits]
LexicalHit(eid, lang, score) ==
    [entity_type |-> "gallery", entity_id |-> eid, language |-> lang,
     score |-> score]
HitKey(h) == <<h.entity_type, h.entity_id, h.language>>

\* score DESC, entity_type ASC, entity_id ASC: the ORDER BY of the lexical
\* backends, and with the language the comparison of sortByScoreThenKey.
sortByScoreThenKeyLess(a, b) ==
    IF a.score # b.score
    THEN a.score > b.score
    ELSE IF a.entity_type # b.entity_type
         THEN StrRank(a.entity_type) < StrRank(b.entity_type)
         ELSE IF a.entity_id # b.entity_id
              THEN StrRank(a.entity_id) < StrRank(b.entity_id)
              ELSE StrRank(a.language) < StrRank(b.language)

sortByScoreThenKey(H) ==
    CHOOSE s \in [1 .. Cardinality(H) -> H] :
        /\ \A i, j \in 1 .. Cardinality(H) : i # j => s[i] # s[j]
        /\ \A i, j \in 1 .. Cardinality(H) :
              i < j => sortByScoreThenKeyLess(s[i], s[j])

ScoredAnswers(lang, limit, floor) ==
    {BackendError} \cup
    {BackendHits(sortByScoreThenKey(H)) :
        H \in {G \in SUBSET {LexicalHit(eid, lang, sc) :
                                 eid \in {"1", "2"}, sc \in HitScores} :
                  /\ Cardinality(G) <= limit
                  /\ Cardinality(G) <= MaxHits
                  /\ \A g \in G : g.score >= floor
                  /\ \A g, h \in G : HitKey(g) = HitKey(h) => g = h}}

\* The answers to Search carry no score: Search reads the order only.  The
\* lexical backends rank one way, the vector KNN the other; a backend finds
\* nothing or as many hits as it may return.
RankedAnswers(backend, lang, limit) ==
    LET ranking == IF backend = "SemanticSearch"
                   THEN <<LexicalHit("1", lang, 0), LexicalHit("2", lang, 0)>>
                   ELSE <<LexicalHit("2", lang, 0), LexicalHit("1", lang, 0)>>
    IN {BackendError} \cup
       {BackendHits(SubSeq(ranking, 1, n)) : n \in {0, Min(limit, MaxHits)}}

\* The leading n elements of a sequence.
Take(s, n) == SubSeq(s, 1, IF n < Len(s) THEN n ELSE Len(s))

\* The calls made so far stop at the first backend that fails.
RECURSIVE CallsUntilError(_, _, _)
CallsUntilError(plan, q, answers) ==
    IF plan = <<>>
    THEN <<>>
    ELSE LET c == [backend |-> Head(plan), q |-> q,
                   answer |-> answers[Head(plan)]]
         IN IF c.answer.err
            THEN <<c>>
            ELSE <<c>> \o CallsUntilError(Tail(plan), q, answers)

\* Variant: native script takes the place of the trigram backend.
SearchPlanEitherOr(q, language) ==
    LET lang == ToLower(TrimSpace(language))
    IN (IF lang = "ja" \/ lang = "zh" \/ lang = "ko"
        THEN (IF containsCJKScript(q)
              THEN <<"PGroongaSearch">>
              ELSE IF containsASCIIAlphaNum(q) THEN <<"LexicalSearch">> ELSE <<>>)
        ELSE <<"FTSSearch">>) \o <<"SemanticSearch">>

\* The backends Search calls when none fails: the lexical ones of the
\* language, then the vector KNN.
SearchPlan(q, language) ==
    LET lang == ToLower(TrimSpace(language))
    IN (IF lang = "ja" \/ lang = "zh" \/ lang = "ko"
        THEN (IF containsASCIIAlphaNum(q) THEN <<"LexicalSearch">> ELSE <<>>)
                 \o (IF containsCJKScript(q) THEN <<"PGroongaSearch">> ELSE <<>>)
        ELSE <<"FTSSearch">>) \o <<"SemanticSearch">>

\* The lists handed to FuseRRF: the keys of each backend's hits, Model empty.
SearchLists(calls) ==
    [i \in 1 .. Len(calls) |->
        [n \in 1 .. Len(calls[i].answer.hits) |->
            RRFKey(calls[i].answer.hits[n].entity_type,
                   calls[i].answer.hits[n].entity_id,
                   calls[i].answer.hits[n].language, "")]]

SearchInput(query, language, limit) ==
    [call |-> "Search input", query |-> query, language |-> language,
     limit |-> limit]

SearchReturn(in, calls, out, err) ==
    [call |-> "Search", query |-> in.query, language |-> in.language,
     limit |-> in.limit, calls |-> calls, out |-> out, err |-> err]

\* Search(query, req): answers holds what each backend answers when called,
\* fused is the order FuseRRF returns the hits in.
Search(in, answers, fused) ==
    LET q == normalizeWhitespace(in.query)
        calls == CallsUntilError(SearchPlan(q, in.language), q, answers)
    IN /\ result = in
       /\ IF q = <<>> \/ ~hasAnyLetterOrNumber(q)
          THEN /\ fused = <<>>
               /\ result' = SearchReturn(in, <<>>, <<>>, FALSE)
          ELSE IF \E i \in 1 .. Len(calls) : calls[i].answer.err
               THEN /\ fused = <<>>
                    /\ result' = SearchReturn(in, calls, <<>>, TRUE)
               ELSE /\ fused \in RRFOrders(RRFHits(SearchLists(calls), <<>>, 0))
                    /\ result' = SearchReturn(in, calls,
                                     IF in.limit > 0 THEN Take(fused, in.limit)
                                                     ELSE fused,
                                     FALSE)
       /\ UNCHANGED <<clock, tasks, dead, pc, fetching, held, issuedMax, gaveUp>>
       /\ UNCHANGED engineVars

ApplySearch ==
    /\ result.call = "Search input"
    /\ LET q == normalizeWhitespace(result.query)
           plan == SearchPlan(q, result.language)
       IN \E answers \in
                 {f \in [{plan[i] : i \in 1 .. Len(plan)} ->
                            UNION {RankedAnswers(b, result.language, result.limit) :
                                      b \in {plan[i] : i \in 1 .. Len(plan)}}] :
                     \A b \in DOMAIN f :
                         f[b] \in RankedAnswers(b, result.language, result.limit)} :
              \E fused \in {<<>>} \cup
                      RRFOrders(RRFHits(
                          SearchLists(CallsUntilError(plan, q, answers)),
                          <<>>, 0)) :
                  Search(result, answers, fused)

TypeaheadInput(query, language, limit, floor) ==
    [call |-> "Typeahead input", query |-> query, language |-> language,
     limit |-> limit, floor |-> floor]

TypeaheadReturn(in, calls, out, err) ==
    [call |-> "Typeahead", query |-> in.query, language |-> in.language,
     limit |-> in.limit, floor |-> in.floor, calls |-> calls, out |-> out,
     err |-> err]

\* The backends Typeahead calls when none fails.
TypeaheadPlan(q, language) ==
    IF ~isCJKLanguage(language)
    THEN <<"LexicalSearch">>
    ELSE (IF containsASCIIAlphaNum(q) THEN <<"LexicalSearch">> ELSE <<>>)
             \o (IF containsCJKScript(q) THEN <<"PGroongaSearch">> ELSE <<>>)

\* The hits a backend returned in these calls.
HitsOf(calls, backend) ==
    UNION {{calls[i].answer.hits[n] : n \in 1 .. Len(calls[i].answer.hits)} :
              i \in {c \in 1 .. Len(calls) : calls[c].backend = backend}}

\* Variant: add keeps the first hit of a key.
MergedFirstSeen(calls, floor) ==
    LET trigram == HitsOf(calls, "LexicalSearch")
    IN trigram \cup
           {h \in HitsOf(calls, "PGroongaSearch") :
               /\ ~(floor > 0 /\ h.score < floor)
               /\ \A g \in trigram : HitKey(g) # HitKey(h)}

\* The merged map: every trigram hit and every PGroonga hit that reaches a
\* positive MinSimilarity is added, a key keeping its higher score.
Merged(calls, floor) ==
    LET added == HitsOf(calls, "LexicalSearch") \cup
                     {h \in HitsOf(calls, "PGroongaSearch") :
                         ~(floor > 0 /\ h.score < floor)}
    IN {h \in added : \A g \in added : HitKey(g) = HitKey(h) => g.score <= h.score}

\* Typeahead(query, opts): for a language other than ja, zh and ko the answer
\* of LexicalSearch is the result; otherwise the merged hits are sorted and
\* cut to opts.Limit.
Typeahead(in, answers) ==
    LET q == normalizeWhitespace(in.query)
        calls == CallsUntilError(TypeaheadPlan(q, in.language), q, answers)
        out == sortByScoreThenKey(Merged(calls, in.floor))
    IN /\ result = in
       /\ IF q = <<>> \/ ~hasAnyLetterOrNumber(q)
          THEN result' = TypeaheadReturn(in, <<>>, <<>>, FALSE)
          ELSE IF ~isCJKLanguage(in.language)
               THEN result' = TypeaheadReturn(in, calls, calls[1].answer.hits,
                                              calls[1].answer.err)
               ELSE IF \E i \in 1 .. Len(calls) : calls[i].answer.err
                    THEN result' = TypeaheadReturn(in, calls, <<>>, TRUE)
                    ELSE result' = TypeaheadReturn(in, calls,
                                       IF in.limit > 0 /\ Len(out) > in.limit
                                       THEN Take(out, in.limit)
                                       ELSE out,
                                       FALSE)
       /\ UNCHANGED <<clock, tasks, dead, pc, fetching, held, issuedMax, gaveUp>>
       /\ UNCHANGED engineVars

\* LexicalSearch keeps the hits of similarity MinSimilarity or more, 0.1 or
\* more when MinSimilarity is not positive; PGroongaSearch has no floor.
ApplyTypeahead ==
    /\ result.call = "Typeahead input"
    /\ \E trigram \in ScoredAnswers(result.language, result.limit,
                         IF result.floor <= 0 THEN DefaultMinSimilarity
                                              ELSE result.floor) :
          \E native \in ScoredAnswers(result.language, result.limit, 0) :
              Typeahead(result, [b \in {"LexicalSearch", "PGroongaSearch"} |->
                                    IF b = "LexicalSearch" THEN trigram
                                                           ELSE native])

SearchInit ==
    /\ clock = 0
    /\ tasks = {}
    /\ dead = {}
    /\ pc = [w \in Workers |-> "idle"]
    /\ fetching = [w \in Workers |-> NoFetch]
    /\ held = [w \in Workers |-> {}]
    /\ issuedMax = [id \in Identities |-> 0]
    /\ gaveUp = [id \in Identities |-> NoGiveUp]
    /\ result \in
           {SearchInput(query, language, limit) :
               query \in Queries, language \in SearchLanguages,
               limit \in 1 .. MaxHits} \cup
           {TypeaheadInput(query, language, limit, floor) :
               query \in Prefixes, language \in SearchLanguages,
               limit \in 1 .. MaxHits, floor \in SimilarityFloors}
    /\ returned = [w \in Workers |-> NotReturned]
    /\ vectors = {}
    /\ documents = {}
    /\ dirty = {}
    /\ rec = NoPass
    /\ bfState = {}
    /\ bfRun = [w \in Workers |-> NoRun]
    /\ registry = {}
    /\ dispatch = NoBatch

NextSearch == ApplySearch \/ ApplyTypeahead
SpecSearch == SearchInit /\ [][NextSearch]_vars

\* ------------------------------------------------------------ vector KNN
\* SearchVectors over the stored embeddings of one model.  A stored row has
\* its Hamming distance to the query (binary quantization) and its cosine
\* similarity to it, in hundredths; the cosine distance is 100 less that.
MaxKNNLimit == 2
MaxOversampleFactor == 2
DefaultOversampleFactor == 5
KNNIds == {"1", "2", "3"}
HammingDistances == {1, 2}
Similarities == {20, 60}
KNNFloors == {0, 40}
KNNModels == {"text-model", " "}

StoredRow(eid, hamming, similarity) ==
    [entity_type |-> "gallery", entity_id |-> eid, hamming |-> hamming,
     similarity |-> similarity]

\* The tables: an entity has at most one embedding for the model.
StoredTables ==
    {T \in SUBSET {StoredRow(eid, d, s) :
                      eid \in KNNIds, d \in HammingDistances, s \in Similarities} :
        \A a, b \in T : a.entity_id = b.entity_id => a = b}

\* The orders ORDER BY can give the rows of T in: Before(a, b) says a's sort
\* value is smaller; rows of equal value come in any order.
OrderedBy(T, Before(_, _)) ==
    {s \in [1 .. Cardinality(T) -> T] :
        /\ \A i, j \in 1 .. Cardinality(T) : i # j => s[i] # s[j]
        /\ \A i, j \in 1 .. Cardinality(T) : i < j => ~Before(s[j], s[i])}

ByHamming(a, b) == a.hamming < b.hamming
ByCosine(a, b) == 100 - a.similarity < 100 - b.similarity

\* The elements of a sequence.
Range(s) == {s[i] : i \in 1 .. Len(s)}

KNNInput(model, limit, twoStage, factor, floor, table) ==
    [call |-> "SearchVectors input", model |-> model, limit |-> limit,
     twoStage |-> twoStage, factor |-> factor, floor |-> floor,
     table |-> table]

KNNReturn(in, candidates, out, err) ==
    [call |-> "SearchVectors", model |-> in.model, limit |-> in.limit,
     twoStage |-> in.twoStage, factor |-> in.factor, floor |-> in.floor,
     table |-> in.table, candidates |-> candidates, out |-> out, err |-> err]

\* Variant: any factor of 1 or more is kept.
OversampleKeepOne(factor) ==
    IF factor <= 0 THEN DefaultOversampleFactor ELSE factor

\* opts.OversampleFactor: 5 when it is 1 or less.
Oversample(factor) ==
    IF factor <= 1 THEN DefaultOversampleFactor ELSE factor

\* The loop over the rows: a row below a positive MinSimilarity is skipped.
Scan(rows, floor) ==
    SelectSeq(rows, LAMBDA h : ~(floor > 0 /\ h.similarity < floor))

\* SearchVectors(q): stage1 is the order of the candidates query, ranked the
\* order of the outer query; fails says the query fails.
SearchVectors(in, stage1, ranked, fails) ==
    LET candidates == Range(Take(stage1, in.limit * Oversample(in.factor)))
        kept == {c \in candidates : c.similarity >= in.floor}
    IN /\ result = in
       /\ stage1 \in OrderedBy(in.table, ByHamming)
       /\ IF TrimSpace(in.model) = ""
          THEN result' = KNNReturn(in, {}, <<>>, TRUE)
          ELSE IF in.limit <= 0
               THEN result' = KNNReturn(in, {}, <<>>, FALSE)
               ELSE IF fails
                    THEN result' = KNNReturn(in, {}, <<>>, TRUE)
                    ELSE IF ~in.twoStage
                         THEN /\ ranked \in OrderedBy(in.table, ByCosine)
                              /\ result' = KNNReturn(in, in.table,
                                     Scan(Take(ranked, in.limit), in.floor),
                                     FALSE)
                         ELSE /\ ranked \in OrderedBy(kept, ByCosine)
                              /\ result' = KNNReturn(in, candidates,
                                     Scan(Take(ranked, in.limit), in.floor),
                                     FALSE)
       /\ UNCHANGED <<clock, tasks, dead, pc, fetching, held, issuedMax, gaveUp>>
       /\ UNCHANGED engineVars

ApplySearchVectors ==
    /\ result.call = "SearchVectors input"
    /\ \E stage1 \in OrderedBy(result.table, ByHamming), fails \in BOOLEAN :
          \E ranked \in UNION {OrderedBy(T, ByCosine) : T \in SUBSET result.table} :
              SearchVectors(result, stage1, ranked, fails)

KNNInit ==
    /\ clock = 0
    /\ tasks = {}
    /\ dead = {}
    /\ pc = [w \in Workers |-> "idle"]
    /\ fetching = [w \in Workers |-> NoFetch]
    /\ held = [w \in Workers |-> {}]
    /\ issuedMax = [id \in Identities |-> 0]
    /\ gaveUp = [id \in Identities |-> NoGiveUp]
    /\ result \in
           {KNNInput(model, limit, twoStage, factor, floor, table) :
               model \in KNNModels, limit \in 0 .. MaxKNNLimit,
               twoStage \in BOOLEAN, factor \in 0 .. MaxOversampleFactor,
               floor \in KNNFloors, table \in StoredTables}
    /\ returned = [w \in Workers |-> NotReturned]
    /\ vectors = {}
    /\ documents = {}
    /\ dirty = {}
    /\ rec = NoPass
    /\ bfState = {}
    /\ bfRun = [w \in Workers |-> NoRun]
    /\ registry = {}
    /\ dispatch = NoBatch

SpecKNN == KNNInit /\ [][ApplySearchVectors]_vars

\* ------------------------------------------------------ the model registry
\* pg.UpsertModels: the configured models are upserted one statement each,
\* then the registry, the tasks, the backfill state and the dead letters of
\* every other model are deleted, one statement per table and no transaction
\* around them.  The store may fail any statement.
ModelSpec(name, dims, modality) ==
    [name |-> name, dims |-> dims, modality |-> modality]
ModelRow(name, dims, modality) ==
    [model |-> name, dims |-> dims, modality |-> modality]
ModelSpecs ==
    {ModelSpec("text-model", 8, "text"), ModelSpec("text-model", 16, "text"),
     ModelSpec("vl-model", 8, "vl"), ModelSpec(" ", 8, "text"),
     ModelSpec("vl-model", 0, "vl"), ModelSpec("vl-model", 8, " ")}
MaxModels == 2
ModelLists == UNION {[1 .. n -> ModelSpecs] : n \in 0 .. MaxModels}

\* The model a row of any of the tables belongs to.
ModelOf(r) == IF "id" \in DOMAIN r THEN r.id.model ELSE r.model

\* Variant: the DELETE finds nothing.
PruneNothing(T, active) == T

\* DELETE ... WHERE NOT (model = ANY($1)): with no active model the array is
\* NULL, the condition is never true and no row goes.
Prune(T, active) ==
    IF active = {} THEN T ELSE {r \in T : ModelOf(r) \in active}

\* The loop over the models from statement stmt on: a model that fails a
\* check, or the statement failAt, ends it with the rows upserted so far.
RECURSIVE UpsertEach(_, _, _, _)
UpsertEach(R, models, stmt, failAt) ==
    IF models = <<>>
    THEN [registry |-> R, err |-> NoErr, active |-> {}, stmt |-> stmt]
    ELSE LET m == Head(models)
             name == TrimSpace(m.name)
             modality == TrimSpace(m.modality)
             stop(e) == [registry |-> R, err |-> e, active |-> {}, stmt |-> stmt]
         IN IF name = ""
            THEN stop("model name is required")
            ELSE IF m.dims <= 0
            THEN stop("dims must be > 0")
            ELSE IF modality = ""
            THEN stop("modality is required")
            ELSE IF stmt = failAt
            THEN stop(StoreError)
            ELSE LET rest == UpsertEach(
                                 {r \in R : r.model # name}
                                     \cup {ModelRow(name, m.dims, modality)},
                                 Tail(models), stmt + 1, failAt)
                 IN [rest EXCEPT !.active = {name} \cup rest.active]

UpsertModels(models, failAt) ==
    LET up == UpsertEach(registry, models, 1, failAt)
        \* The prune statements that ran: those before failAt.
        ran(k) == up.err = NoErr /\ ~(failAt \in up.stmt .. up.stmt + k)
        err == IF up.err # NoErr
               THEN up.err
               ELSE IF failAt \in up.stmt .. up.stmt + 3 THEN StoreError ELSE NoErr
    IN /\ registry' = IF ran(0) THEN Prune(up.registry, up.active) ELSE up.registry
       /\ tasks' = IF ran(1) THEN Prune(tasks, up.active) ELSE tasks
       /\ bfState' = IF ran(2) THEN Prune(bfState, up.active) ELSE bfState
       /\ dead' = IF ran(3) THEN Prune(dead, up.active) ELSE dead
       /\ result' = [call |-> "UpsertModels", models |-> models, err |-> err,
                     pruned |-> Cardinality(up.registry \ registry')
                                    + Cardinality(tasks \ tasks')
                                    + Cardinality(bfState \ bfState')
                                    + Cardinality(dead \ dead')]
       /\ UNCHANGED <<clock, pc, fetching, held, issuedMax, gaveUp>>
       /\ UNCHANGED <<returned, vectors, documents, dirty, rec, bfRun, dispatch>>

\* The host syncs its configuration once, at start.
ApplyUpsertModels ==
    /\ result = NoCall
    /\ \E models \in ModelLists, failAt \in 0 .. MaxModels + 4 :
          UpsertModels(models, failAt)

ModelsInit ==
    /\ clock = 0
    /\ tasks \in SUBSET {TaskRow(TextTask, "dirty", 0, 0),
                         TaskRow(VLTask, "dirty", 0, 0)}
    /\ dead \in SUBSET {DeadRow(TextTask, "dirty", ErrorText(TimeoutErr), 1),
                        DeadRow(VLTask, "dirty", ErrorText(TimeoutErr), 1)}
    /\ pc = [w \in Workers |-> "idle"]
    /\ fetching = [w \in Workers |-> NoFetch]
    /\ held = [w \in Workers |-> {}]
    /\ issuedMax = [id \in Identities |-> 0]
    /\ gaveUp = [id \in Identities |-> NoGiveUp]
    /\ result = NoCall
    /\ returned = [w \in Workers |-> NotReturned]
    /\ vectors \in {{}, {TextTask, VLTask}}
    /\ documents = {}
    /\ dirty = {}
    /\ rec = NoPass
    /\ bfState \in SUBSET {BackfillRow(Partition(m, "gallery")) : m \in ActiveModels}
    /\ bfRun = [w \in Workers |-> NoRun]
    /\ registry \in SUBSET {ModelRow("text-model", 8, "text"),
                            ModelRow("vl-model", 8, "vl")}
    /\ dispatch = NoBatch

SpecModels == ModelsInit /\ [][ApplyUpsertModels]_vars

\* ----------------------------------------------------- the dispatch of a tick
\* processBatch after hydration: the first loop completes the tasks with
\* nothing to embed, the text tasks of a model go to the provider in chunks of
\* providerEmbedBatchSize (25 in the source, smaller here), every
\* vision-language task in a call of its own.  Every call runs in a goroutine
\* that holds a slot of the gate sem, a channel of MaxConcurrentEmbeds places,
\* and with a rate limit first takes a token.
providerEmbedBatchSize == 2
DefaultMaxConcurrentEmbeds == 8
MaxGate == 2

\* Options.withDefaults: MaxConcurrentEmbeds <= 0 becomes 8.
MaxConcurrentEmbeds(cfg) == IF cfg <= 0 THEN DefaultMaxConcurrentEmbeds ELSE cfg

PressTask == Ident("wiki", "2", "text-model")
DispatchOrder == <<TextTask, WikiTask, PressTask, VLTask, SpaceTask>>
DispatchLease == CfgLockAhead
LeasedRow(id) == TaskRow(id, "dirty", 0, DispatchLease)

RECURSIVE SubSeqOf(_, _)
SubSeqOf(s, keep) ==
    IF s = <<>> THEN <<>>
    ELSE IF Head(s) \in keep
    THEN <<Head(s)>> \o SubSeqOf(Tail(s), keep)
    ELSE SubSeqOf(Tail(s), keep)

\* The batches FetchReady leased.
DispatchBatches ==
    {SubSeqOf(DispatchOrder, keep) : keep \in SUBSET Range(DispatchOrder)} \ {<<>>}

\* The results of a provider call, and of the calls of the store.
EmbedErrors == {NilErr, TimeoutErr, APIError(400)}

\* items[start:end] for every start that is a multiple of the chunk size.
RECURSIVE Chunks(_)
Chunks(items) ==
    IF items = <<>> THEN <<>>
    ELSE IF Len(items) <= providerEmbedBatchSize THEN <<items>>
    ELSE <<SubSeq(items, 1, providerEmbedBatchSize)>>
         \o Chunks(SubSeq(items, providerEmbedBatchSize + 1, Len(items)))

\* The work item of a task: its row and the document hydrateBatch found.
WorkItem(id) == [task |-> LeasedRow(id), doc |-> HydratedDoc(LeasedRow(id), "text")]

IsCompletedFirst(id) == classify(LeasedRow(id), "text", 1) # <<>>
IsTextWork(id) == ~IsCompletedFirst(id) /\ ~IsVLModel(id.model)
IsVLWork(id) == ~IsCompletedFirst(id) /\ IsVLModel(id.model)

ItemsOf(batch, Keep(_)) ==
    LET ids == SelectSeq(batch, Keep) IN [i \in DOMAIN ids |-> WorkItem(ids[i])]

RECURSIVE Singletons(_)
Singletons(items) ==
    IF items = <<>> THEN <<>> ELSE <<(<<Head(items)>>)>> \o Singletons(Tail(items))

\* The calls processBatch dispatches, in its order: the chunks of the text
\* items, then the vision-language items one by one.
WorkUnits(batch) ==
    Chunks(ItemsOf(batch, IsTextWork)) \o Singletons(ItemsOf(batch, IsVLWork))

IsVLUnit(unit) == IsVLModel(unit[1].task.id.model)

\* Runtime.GenerateAndStoreTextEmbeddingsWithDocuments: the per-item errors
\* (the empty sequence for nil) and the error of the whole call.  embedErr is
\* what EmbedTexts returns, storeFails the items whose vector upsert fails.
GenerateAndStoreTextEmbeddingsWithDocuments(configured, items, embedErr, storeFails) ==
    LET local == [i \in DOMAIN items |->
                    IF TrimSpace(items[i].doc) = "" THEN ErrEntityNotFound ELSE NilErr]
        docs == {i \in DOMAIN items : local[i] = NilErr}
    IN IF ~configured
       THEN [errs |-> <<>>, err |-> TimeoutErr, embedded |-> FALSE]
       ELSE IF docs = {}
       THEN [errs |-> local, err |-> NilErr, embedded |-> FALSE]
       ELSE IF embedErr # NilErr
       THEN [errs |-> local, err |-> embedErr, embedded |-> TRUE]
       ELSE [errs |-> [i \in DOMAIN items |->
                         IF i \in docs /\ i \in storeFails THEN TimeoutErr ELSE local[i]],
             err |-> NilErr, embedded |-> TRUE]

\* Variant: the error of the whole call replaces every per-item error.
ChunkErrorsBatchWins(n, perItemErrs, batchErr) ==
    [i \in 1 .. n |-> IF batchErr # NilErr THEN batchErr
                      ELSE IF perItemErrs = <<>> THEN NilErr ELSE perItemErrs[i]]

\* The error handleTaskResult gets for each item of a chunk: its own, or the
\* error of the whole call when it has none.
ChunkErrors(n, perItemErrs, batchErr) ==
    [i \in 1 .. n |->
        LET err == IF perItemErrs = <<>> THEN NilErr ELSE perItemErrs[i]
        IN IF err = NilErr /\ batchErr # NilErr THEN batchErr ELSE err]

\* Runtime.GenerateAndStoreVLEmbeddingWithInputs.
GenerateAndStoreVLEmbeddingWithInputs(item, assets, embedErr, storeFails) ==
    IF TrimSpace(item.doc) = "" \/ assets = 0 THEN ErrEntityNotFound
    ELSE IF embedErr # NilErr THEN embedErr
    ELSE IF storeFails THEN TimeoutErr
    ELSE NilErr

\* The state of a tick between hydration and the return of processBatch.
Hydrated(batch, cfgGate, limited) ==
    [pc |-> "hydrated", batch |-> batch,
     cap |-> MaxConcurrentEmbeds(cfgGate), limited |-> limited,
     tokens |-> IF limited THEN MaxConcurrentEmbeds(cfgGate) ELSE 0,
     cancelled |-> FALSE, units |-> <<>>, next |-> 1, gate |-> 0,
     status |-> <<>>, errs |-> <<>>, handled |-> <<>>,
     outcomes |-> [id \in Range(batch) |-> <<>>]]

UnitIds == DOMAIN dispatch.units
InFlight == {u \in UnitIds : dispatch.status[u] = "calling"}
Dispatching == dispatch.pc = "dispatching"

DispatchStep(d, T, D) ==
    /\ dispatch' = d
    /\ tasks' = T
    /\ dead' = D
    /\ UNCHANGED <<clock, pc, fetching, held, issuedMax, gaveUp, result>>
    /\ UNCHANGED <<returned, vectors, documents, dirty, rec, bfState, bfRun, registry>>

\* What a repo call leaves of the tables; a call the store fails changes
\* nothing, and its error is discarded.
AfterCalls(calls, storeFails) ==
    IF storeFails THEN [tasks |-> tasks, dead |-> dead]
    ELSE ApplyCalls(tasks, dead, calls, clock)

Recorded(outcomes, id, call, err) ==
    [outcomes EXCEPT ![id] = Append(@, [call |-> call, err |-> err])]

RECURSIVE RecordCompleted(_, _)
RecordCompleted(outcomes, ids) ==
    IF ids = <<>> THEN outcomes
    ELSE RecordCompleted(Recorded(outcomes, Head(ids), "Complete", NilErr), Tail(ids))

RECURSIVE CompleteCalls(_, _)
CompleteCalls(ids, failing) ==
    IF ids = <<>> THEN <<>>
    ELSE (IF Head(ids) \in failing THEN <<>> ELSE classify(LeasedRow(Head(ids)), "text", 1))
         \o CompleteCalls(Tail(ids), failing)

\* processBatch, the first loop: the tasks with nothing to embed are
\* completed, the others become the work of the tick.
FirstLoop(failing) ==
    /\ dispatch.pc = "hydrated"
    /\ LET done == SelectSeq(dispatch.batch, IsCompletedFirst)
           units == WorkUnits(dispatch.batch)
           after == ApplyCalls(tasks, dead, CompleteCalls(done, failing), clock)
       IN /\ failing \subseteq Range(done)
          /\ DispatchStep([dispatch EXCEPT
                             !.pc = "dispatching",
                             !.units = units,
                             !.status = [u \in DOMAIN units |-> "pending"],
                             !.errs = [u \in DOMAIN units |-> <<>>],
                             !.handled = [u \in DOMAIN units |-> 0],
                             !.outcomes = RecordCompleted(@, done)],
                          after.tasks, after.dead)

\* Variant: the send on the gate never blocks.
GateAlwaysFree(d) == TRUE

\* sem <- struct{}{} proceeds when the channel has a free place.
GateFree(d) == d.gate < d.cap

\* The dispatcher: a send on the gate, then the goroutine of the next call.
GateSend ==
    /\ Dispatching
    /\ dispatch.next \in UnitIds
    /\ GateFree(dispatch)
    /\ DispatchStep([dispatch EXCEPT !.gate = @ + 1,
                                     !.status[dispatch.next] = "spawned",
                                     !.next = @ + 1],
                    tasks, dead)

\* The deferred receive from the gate.
Released(d, u) == [d EXCEPT !.gate = @ - 1, !.status[u] = "done"]

\* A goroutine without rate limit, or with a token, starts its provider call.
CallStart(u) ==
    /\ Dispatching
    /\ u \in UnitIds
    /\ dispatch.status[u] = "spawned"
    /\ dispatch.limited => dispatch.tokens > 0
    /\ DispatchStep([dispatch EXCEPT
                       !.status[u] = "calling",
                       !.tokens = IF dispatch.limited THEN @ - 1 ELSE @],
                    tasks, dead)

\* A goroutine waiting for a token sees the cancelled context and returns.
TokenWaitCancelled(u) ==
    /\ Dispatching
    /\ u \in UnitIds
    /\ dispatch.status[u] = "spawned"
    /\ dispatch.limited
    /\ dispatch.cancelled
    /\ DispatchStep(Released(dispatch, u), tasks, dead)

\* The ticker of the token bucket puts a token back.
TokenRefill ==
    /\ Dispatching
    /\ dispatch.limited
    /\ dispatch.tokens < dispatch.cap
    /\ DispatchStep([dispatch EXCEPT !.tokens = @ + 1], tasks, dead)

\* The provider call of a goroutine returns.
ProviderReturn(u, embedErr, storeFails) ==
    /\ Dispatching
    /\ u \in UnitIds
    /\ dispatch.status[u] = "calling"
    /\ LET unit == dispatch.units[u]
           got == GenerateAndStoreTextEmbeddingsWithDocuments(TRUE, unit, embedErr, storeFails)
           errs == IF IsVLUnit(unit)
                   THEN <<GenerateAndStoreVLEmbeddingWithInputs(unit[1], 1, embedErr,
                                                                1 \in storeFails)>>
                   ELSE ChunkErrors(Len(unit), got.errs, got.err)
       IN /\ storeFails \subseteq DOMAIN unit
          /\ (embedErr # NilErr) => storeFails = {}
          /\ DispatchStep([dispatch EXCEPT !.status[u] = "handling", !.errs[u] = errs],
                          tasks, dead)

\* The item a goroutine handles next, and whether handleTaskResult draws a
\* jitter for it from the random source of the tick.
NextItem(u) == dispatch.units[u][dispatch.handled[u] + 1]
NextErr(u) == dispatch.errs[u][dispatch.handled[u] + 1]
DrawsJitter(u) ==
    /\ dispatch.status[u] = "handling"
    /\ handleTaskResult(NextItem(u).task, NextErr(u), 0)[1].call = "Fail"

\* handleTaskResult for the next item of a goroutine; after the last item the
\* goroutine returns and frees its slot.
HandleItem(u, j, storeFails) ==
    /\ Dispatching
    /\ u \in UnitIds
    /\ dispatch.status[u] = "handling"
    /\ j \in JitterOf(NextItem(u).task)
    /\ LET calls == handleTaskResult(NextItem(u).task, NextErr(u), j)
           after == AfterCalls(calls, storeFails)
           d == [dispatch EXCEPT
                   !.handled[u] = @ + 1,
                   !.outcomes = Recorded(@, NextItem(u).task.id, calls[1].call, NextErr(u))]
       IN DispatchStep(IF d.handled[u] = Len(d.units[u]) THEN Released(d, u) ELSE d,
                       after.tasks, after.dead)

\* Two goroutines draw from the one *rand.Rand of the tick at the same time:
\* the source is not safe for concurrent use, and besides a jitter in range
\* the unsynchronised updates of its indices can give an index out of range,
\* a panic that ends the process.
RngRace(u, v) ==
    /\ Dispatching
    /\ u \in UnitIds /\ v \in UnitIds /\ u # v
    /\ DrawsJitter(u) /\ DrawsJitter(v)
    /\ DispatchStep([dispatch EXCEPT !.pc = "crashed"], tasks, dead)

\* The context of the tick is cancelled.
CancelTick ==
    /\ Dispatching
    /\ ~dispatch.cancelled
    /\ DispatchStep([dispatch EXCEPT !.cancelled = TRUE], tasks, dead)

\* wg.Wait returns once every goroutine is done.
DispatchReturn ==
    /\ Dispatching
    /\ dispatch.next \notin UnitIds
    /\ \A u \in UnitIds : dispatch.status[u] = "done"
    /\ DispatchStep([dispatch EXCEPT !.pc = "returned"], tasks, dead)

DispatchInit ==
    /\ clock = 0
    /\ dead = {}
    /\ pc = [w \in Workers |-> "idle"]
    /\ fetching = [w \in Workers |-> NoFetch]
    /\ held = [w \in Workers |-> {}]
    /\ issuedMax = [id \in Identities |-> 0]
    /\ gaveUp = [id \in Identities |-> NoGiveUp]
    /\ result = NoCall
    /\ returned = [w \in Workers |-> NotReturned]
    /\ vectors = {}
    /\ documents = {}
    /\ dirty = {}
    /\ rec = NoPass
    /\ bfState = {}
    /\ bfRun = [w \in Workers |-> NoRun]
    /\ registry = {}
    /\ \E batch \in DispatchBatches, cfgGate \in 0 .. MaxGate, limited \in BOOLEAN :
         /\ dispatch = Hydrated(batch, cfgGate, limited)
         /\ tasks = {LeasedRow(id) : id \in Range(batch)}

NextDispatch ==
    \/ \E failing \in SUBSET Range(DispatchOrder) : FirstLoop(failing)
    \/ GateSend
    \/ \E u \in 1 .. Len(DispatchOrder) : CallStart(u)
    \/ \E u \in 1 .. Len(DispatchOrder) : TokenWaitCancelled(u)
    \/ TokenRefill
    \/ \E u \in 1 .. Len(DispatchOrder), embedErr \in EmbedErrors,
          storeFails \in SUBSET (1 .. providerEmbedBatchSize) :
         ProviderReturn(u, embedErr, storeFails)
    \/ \E u \in 1 .. Len(DispatchOrder), j \in 0 .. BackoffMax, storeFails \in BOOLEAN :
         HandleItem(u, j, storeFails)
    \/ \E u, v \in 1 .. Len(DispatchOrder) : RngRace(u, v)
    \/ CancelTick
    \/ DispatchReturn

SpecDispatch == DispatchInit /\ [][NextDispatch]_vars

\* One text chunk on its own: the runtime call and the errors its items are
\* handled with.
SubBatchDocs == {"", "text"}
SubBatchItems ==
    {<<[task |-> LeasedRow(TextTask), doc |-> d1]>> : d1 \in SubBatchDocs}
    \cup {<<[task |-> LeasedRow(TextTask), doc |-> d1],
            [task |-> LeasedRow(WikiTask), doc |-> d2]>> :
            d1 \in SubBatchDocs, d2 \in SubBatchDocs}

SubBatchInput(configured, items, embedErr, storeFails) ==
    [call |-> "sub-batch input", configured |-> configured, items |-> items,
     embedErr |-> embedErr, storeFails |-> storeFails]

\* Lines 879..890 of processBatch for the chunk in result.
ApplySubBatch ==
    /\ result.call = "sub-batch input"
    /\ LET got == GenerateAndStoreTextEmbeddingsWithDocuments(
                      result.configured, result.items, result.embedErr, result.storeFails)
           errs == ChunkErrors(Len(result.items), got.errs, got.err)
       IN result' = [call |-> "sub-batch", input |-> result,
                     perItemErrs |-> got.errs, batchErr |-> got.err,
                     embedded |-> got.embedded, handled |-> errs,
                     calls |-> [i \in DOMAIN result.items |->
                                  handleTaskResult(result.items[i].task, errs[i], 0)[1].call]]
    /\ UNCHANGED <<clock, tasks, dead, pc, fetching, held, issuedMax, gaveUp>>
    /\ UNCHANGED engineVars

SubBatchInit ==
    /\ clock = 0
    /\ dead = {}
    /\ pc = [w \in Workers |-> "idle"]
    /\ fetching = [w \in Workers |-> NoFetch]
    /\ held = [w \in Workers |-> {}]
    /\ issuedMax = [id \in Identities |-> 0]
    /\ gaveUp = [id \in Identities |-> NoGiveUp]
    /\ returned = [w \in Workers |-> NotReturned]
    /\ vectors = {}
    /\ documents = {}
    /\ dirty = {}
    /\ rec = NoPass
    /\ bfState = {}
    /\ bfRun = [w \in Workers |-> NoRun]
    /\ registry = {}
    /\ dispatch = NoBatch
    /\ \E configured \in BOOLEAN, items \in SubBatchItems, embedErr \in EmbedErrors,
          storeFails \in SUBSET (1 .. providerEmbedBatchSize) :
         /\ result = SubBatchInput(configured, items, embedErr, storeFails)
         /\ tasks = {items[i].task : i \in DOMAIN items}

SpecSubBatch == SubBatchInit /\ [][ApplySubBatch]_vars

\* ------------------------------------------------ the lease of one identity
\* Two workers lease, execute and report on the task of one identity while
\* the host enqueues it again and time passes.
LeaseErrors == {NilErr, TimeoutErr}
LeaseEnqueue == Enqueue(TextTask, "dirty")
LeaseFetchBegin == \E w \in Workers : FetchBegin(w, 1, CfgLockAhead, clock)
LeaseClassify ==
    \E w \in Workers : \E h \in held[w] : Classify(w, h, "text", 0)
LeaseExecute ==
    \E w \in Workers : \E h \in held[w], err \in LeaseErrors : \E j \in JitterOf(h.task) :
        Execute(w, h, err, j)

NextLease ==
    \/ Tick
    \/ LeaseEnqueue
    \/ LeaseFetchBegin
    \/ AnyFetchCommit
    \/ AnyHydrate
    \/ LeaseClassify
    \/ LeaseExecute

SpecLease == InitWith({TextTask}) /\ [][NextLease]_vars

\* ------------------------------------------------------- backfill.RunOnce
\* The bounded backfill of package backfill: for every model and entity type
\* one page of the host's pager is enqueued per run, within a budget of
\* MaxTasksPerRun enqueues and MaxRuntime.  The cursor is the number of pages
\* served; a page is a list of ids, one of them blank.
RunOncePages == <<(<<"1", " ", "2">>), (<<"3">>)>>
RunOnceModels == <<"text-model", "vl-model">>
RunOnceTypes == <<"gallery">>
DefaultMaxTasksPerRun == 50000
MaxRunTasks == 2
MaxTimeChecks == 2

\* Options.withDefaults of package backfill.
MaxTasksPerRun(cfg) == IF cfg <= 0 THEN DefaultMaxTasksPerRun ELSE cfg

\* A row of embedding_backfill_state.
RunStateRow(model, et, cursor, state, lastError) ==
    [model |-> model, entity_type |-> et, cursor |-> cursor, state |-> state,
     last_error |-> lastError]
RunStateOf(B, model, et) == {r \in B : r.model = model /\ r.entity_type = et}

\* The run so far: the tables, the enqueues counted, the budget checks made
\* (in a run that runs out of time, time is up from check number deadline on)
\* and what the run returned.
RunSoFar(T, B, enqueued, checks, ret) ==
    [tasks |-> T, bf |-> B, enqueued |-> enqueued, checks |-> checks, ret |-> ret]

\* time.Since(start) > cfg.MaxRuntime || enqueued >= cfg.MaxTasksPerRun.
OverBudget(s, cfg) ==
    \/ cfg.timed /\ s.checks >= cfg.deadline
    \/ s.enqueued >= MaxTasksPerRun(cfg.maxTasks)

\* The loop over the ids of a page: it breaks when the budget is used up,
\* skips a blank id and enqueues the others; an Enqueue the store fails ends
\* the run with its error.
RECURSIVE EnqueuePage(_, _, _, _, _, _)
EnqueuePage(s, cfg, model, et, ids, now) ==
    IF ids = <<>> THEN s
    ELSE IF OverBudget(s, cfg) THEN [s EXCEPT !.checks = @ + 1]
    ELSE LET t == [s EXCEPT !.checks = @ + 1]
         IN IF TrimSpace(Head(ids)) = ""
            THEN EnqueuePage(t, cfg, model, et, Tail(ids), now)
            ELSE IF cfg.storeFails
            THEN [t EXCEPT !.ret = StoreError]
            ELSE EnqueuePage(
                     [t EXCEPT !.tasks = EnqueueRows(t.tasks, Ident(et, Head(ids), model),
                                                     "model_backfill", now),
                               !.enqueued = @ + 1],
                     cfg, model, et, Tail(ids), now)

\* The body of the loops for one model and entity type.
RunPartition(s, cfg, model, et, now) ==
    IF s.ret # NotReturned THEN s
    ELSE IF OverBudget(s, cfg) THEN [s EXCEPT !.ret = NoErr, !.checks = @ + 1]
    ELSE LET B == IF RunStateOf(s.bf, model, et) = {}
                  THEN s.bf \cup {RunStateRow(model, et, 0, "running", NoErr)}
                  ELSE s.bf
             row == CHOOSE r \in RunStateOf(B, model, et) : TRUE
             t == [s EXCEPT !.bf = B, !.checks = @ + 1]
         IN IF row.state = "done" THEN t
            ELSE IF <<model, et>> \in cfg.pagerFails
            THEN [t EXCEPT !.bf = (B \ {row}) \cup {[row EXCEPT !.last_error = PagerError]},
                           !.ret = PagerError]
            ELSE LET ids == RunOncePages[row.cursor + 1]
                     done == row.cursor + 1 = Len(RunOncePages)
                     u == EnqueuePage(t, cfg, model, et, ids, now)
                 IN IF u.ret # NotReturned THEN u
                    ELSE
                    [u EXCEPT !.bf = (B \ {row}) \cup
                                  {RunStateRow(model, et, row.cursor + 1,
                                               IF done THEN "done" ELSE row.state,
                                               NoErr)}]

RECURSIVE RunPartitions(_, _, _, _)
RunPartitions(s, cfg, parts, now) ==
    IF parts = <<>> THEN s
    ELSE RunPartitions(RunPartition(s, cfg, Head(parts)[1], Head(parts)[2], now),
                       cfg, Tail(parts), now)

RunOnceParts ==
    [i \in 1 .. Len(RunOnceModels) * Len(RunOnceTypes) |->
        <<RunOnceModels[((i - 1) \div Len(RunOnceTypes)) + 1],
          RunOnceTypes[((i - 1) % Len(RunOnceTypes)) + 1]>>]

RunConfig(maxTasks, timed, deadline, pagerFails, storeFails) ==
    [maxTasks |-> maxTasks, timed |-> timed, deadline |-> deadline,
     pagerFails |-> pagerFails, storeFails |-> storeFails]

\* backfill.RunOnce for the models and entity types of the configuration.
RunOnce(cfg) ==
    /\ LET s == RunPartitions(RunSoFar(tasks, bfState, 0, 0, NotReturned), cfg,
                              RunOnceParts, clock)
       IN /\ tasks' = s.tasks
          /\ bfState' = s.bf
          /\ result' = [call |-> "RunOnce", cfg |-> cfg, enqueued |-> s.enqueued,
                        err |-> IF s.ret = NotReturned THEN NoErr ELSE s.ret]
    /\ UNCHANGED <<clock, dead, pc, fetching, held, issuedMax, gaveUp>>
    /\ UNCHANGED <<returned, vectors, documents, dirty, rec, bfRun, registry, dispatch>>

ApplyRunOnce ==
    \E maxTasks \in 0 .. MaxRunTasks, timed \in BOOLEAN, deadline \in 0 .. MaxTimeChecks,
       pagerFails \in SUBSET {RunOnceParts[i] : i \in DOMAIN RunOnceParts},
       storeFails \in BOOLEAN :
        /\ (~timed) => deadline = 0
        /\ RunOnce(RunConfig(maxTasks, timed, deadline, pagerFails, storeFails))

RunOnceInit ==
    /\ QueueInit({})
    /\ vectors = {}
    /\ documents = {}
    /\ dirty = {}
    /\ rec = NoPass
    /\ bfState = {}
    /\ bfRun = [w \in Workers |-> NoRun]
    /\ registry = {}
    /\ dispatch = NoBatch

SpecRunOnce == RunOnceInit /\ [][ApplyRunOnce]_vars

\* --------------------------------------------- a deletion and a late worker
\* A worker executes the task of an entity while the host marks the entity
\* deleted and the reconciler processes the marker.  The execution of a
\* leased task embeds the hydrated document and upserts the vector, then
\* reports the outcome with the lease token.  The upsert is keyed by entity
\* and model and looks at nothing else (the vision-language upsert likewise).
UpsertTextEmbedding(V, id) == V \cup {id}

ExecuteAndStore(w, h) ==
    /\ pc[w] = "process"
    /\ h \in held[w]
    /\ h.stage = "work"
    /\ \A x \in held[w] : x.stage = "work"
    /\ vectors' = UpsertTextEmbedding(vectors, h.task.id)
    /\ Outcome(w, h, NilErr.type, handleTaskResult(h.task, NilErr, 0), held[w] \ {h})
    /\ UNCHANGED <<clock, fetching, issuedMax>>
    /\ UNCHANGED <<returned, documents, dirty, rec, bfState, bfRun, registry, dispatch>>

DeletedEntity == Entity("gallery", "1")

\* The host still has the entity: it builds a document for it only until it
\* deletes it and writes the deletion marker.
HostHasEntity == dirty = {} /\ rec = NoPass /\ DeletedEntity \in documents

NextDeletion ==
    \/ Tick
    \/ OneFetchBegin
    \/ OneFetchCommit
    \/ OneHydrate
    \/ HostHasEntity /\ \E h \in held["w1"] : Classify("w1", h, "text", 1)
    \/ \E h \in held["w1"] : ExecuteAndStore("w1", h)
    \/ MarkDirty(DeletedEntity, TRUE)
    \/ \E rows \in SUBSET dirty : PassFetch(MaxDirtyBatch, rows)
    \/ \E r \in PassTodo : PassDelete(r)
    \/ PassLexical(<<>>)
    \/ PassSemantic
    \/ PassClear

SpecDeletion == ReconcileInit /\ [][NextDeletion]_vars

\* ------------------------------------------------------ a queue that drains
\* One worker keeps ticking over a queue nobody adds to; the store and the
\* collaborators answer every call.  Time is kept relative to now: when a
\* second passes, every next_run_at and every lease token in the future comes
\* one second closer, and the clock stays where it is.
Sooner(t) == IF t > clock THEN t - 1 ELSE t

SecondPasses ==
    /\ tasks' = {[r EXCEPT !.next_run_at = Sooner(@)] : r \in tasks}
    /\ held' = [w \in Workers |->
                  {[h EXCEPT !.task.next_run_at = Sooner(@)] : h \in held[w]}]
    /\ fetching' = [w \in Workers |->
                      IF fetching[w].active
                      THEN [fetching[w] EXCEPT !.next = Sooner(@)]
                      ELSE fetching[w]]
    /\ UNCHANGED <<clock, dead, pc, issuedMax, gaveUp, result>>
    /\ UNCHANGED engineVars

LiveErrors == {NilErr, TimeoutErr, APIError(400)}
LiveWorker ==
    \/ \E limit \in 1 .. MaxLimit : FetchBegin("w1", limit, CfgLockAhead, clock)
    \/ OneFetchCommit
    \/ OneHydrate
    \/ \E h \in held["w1"] : Classify("w1", h, "text", 1)
    \/ \E h \in held["w1"], err \in LiveErrors : \E j \in JitterOf(h.task) :
          Execute("w1", h, err, j)

NextLive == SecondPasses \/ LiveWorker

LiveInit ==
    /\ InitWith(Identities)
    /\ tasks # {}

SpecLive ==
    /\ LiveInit
    /\ [][NextLive]_vars
    /\ WF_vars(SecondPasses)
    /\ WF_vars(LiveWorker)

\* ------------------------------------------------------------- properties
\* A worker's step that issues exactly the repo call named kind for its held
\* item h.
CallStep(w, h, kind) ==
    \/ \E doc \in Docs, assets \in AssetCounts :
          /\ classify(h.task, doc, assets) # <<>>
          /\ kind = "Complete"
          /\ Classify(w, h, doc, assets)
    \/ \E err \in ExecErrors : \E j \in JitterOf(h.task) :
          /\ handleTaskResult(h.task, err, j)[1].call = kind
          /\ Execute(w, h, err, j)

\* The row of h's identity exists and its next_run_at is not h's lease token.
StaleToken(h) ==
    /\ RowsOf(tasks, h.task.id) # {}
    /\ \A r \in RowsOf(tasks, h.task.id) : r.next_run_at # h.task.next_run_at

\* C1: of two FetchReady calls that return the same identity, the one whose
\* statement commits later has a 'now' at or after every lease token handed
\* out for that identity before: no identity is leased to a second caller
\* while a lease on it is unexpired.
C1_NoDoubleLease ==
    [][\A w \in Workers :
          FetchCommit(w) =>
              \A id \in fetching[w].picked : issuedMax[id] <= fetching[w].now]_vars

\* Two callers hold the same identity: the second leased it after the first
\* lease ran out.
C1_Witness ==
    \E h1 \in held["w1"], h2 \in held["w2"] :
        /\ h1.task.id = h2.task.id
        /\ h1.task.next_run_at # h2.task.next_run_at

\* C2: Complete and Fail called with a lease token that differs from the
\* row's current next_run_at return no error and leave the row, and the rest
\* of both tables, as they were.
C2_StaleCompleteFailNoOp ==
    [][\A w \in Workers : \A h \in held[w] :
          (StaleToken(h) /\ (CallStep(w, h, "Complete") \/ CallStep(w, h, "Fail")))
              => /\ RowsOf(tasks', h.task.id) = RowsOf(tasks, h.task.id)
                 /\ tasks' = tasks
                 /\ dead' = dead
                 /\ result'.err = NoErr]_vars

\* A Fail came with a superseded token while the row existed, and a worker
\* holds a lease that is still the row's current one.
C2_Witness ==
    /\ result.call = "Fail"
    /\ result.existed
    /\ ~result.matched
    /\ \E w \in Workers : \E h \in held[w] : h.task \in tasks

\* C3: DeadLetter called with a stale lease token changes neither the task
\* table nor the dead-letter table.
C3_StaleDeadLetterNoOp ==
    [][\A w \in Workers : \A h \in held[w] :
          (StaleToken(h) /\ CallStep(w, h, "DeadLetter"))
              => (tasks' = tasks /\ dead' = dead)]_vars

\* C4: an accepted Enqueue leaves exactly one row for the identity; a new row
\* has next_run_at = now; an existing row gets the new reason and the earlier
\* of its next_run_at and now, and keeps its attempts; no other row changes.
C4_EnqueueUpsert ==
    [][\A id \in EnqueueArgs, reason \in Reasons :
          (Enqueue(id, reason) /\ ~EnqueueInvalid(id))
              => LET before == RowsOf(tasks, id)
                     after == RowsOf(tasks', id)
                 IN /\ Cardinality(after) = 1
                    /\ \A r \in after : r.reason = reason
                    /\ before = {} =>
                          \A r \in after : r.next_run_at = clock /\ r.attempts = 0
                    /\ \A b \in before : \A r \in after :
                          /\ r.attempts = b.attempts
                          /\ r.next_run_at <= b.next_run_at
                          /\ b.next_run_at <= clock => r.next_run_at = b.next_run_at
                          /\ b.next_run_at > clock => r.next_run_at = clock
                    /\ tasks' \ after = tasks \ before]_vars

\* An Enqueue found the row with a next_run_at in the future and pulled it
\* back to now.
C4_Witness ==
    /\ result.call = "Enqueue"
    /\ result.existed
    /\ result.pulled
    /\ \E r \in tasks : r.next_run_at = clock /\ r.attempts > 0
    /\ pc["w1"] = "idle"

\* C5: the task table never holds two rows for one identity.
C5_OneRowPerIdentity ==
    \A r1 \in tasks, r2 \in tasks : r1.id = r2.id => r1 = r2

\* An Enqueue for an identity that already had a row, whose reason and
\* attempts differ from a freshly inserted row's.
C5_Witness ==
    /\ result.call = "Enqueue"
    /\ result.existed
    /\ \E r \in tasks : r.attempts > 0 /\ r.reason = "model_backfill"

\* What FetchReady returns: at most limit tasks, each due before the call,
\* the first of the due rows in (next_run_at, identity) order when no other
\* call is in flight; each returned task carries the stored next_run_at,
\* which is now + the lease duration, and the attempts it had.
FetchReturnsLeased ==
    /\ \A w \in Workers, limit \in Limits \ {0} :
          FetchBegin(w, limit, CfgLockAhead, clock) =>
              LET due == {r \in tasks : r.next_run_at <= clock}
                  picked == fetching'[w].picked
              IN /\ Cardinality(picked) <= limit
                 /\ picked \subseteq {r.id : r \in due}
                 /\ (\A x \in Workers : pc[x] # "fetching") =>
                        /\ Cardinality(picked) = Min(limit, Cardinality(due))
                        /\ \A p \in due, q \in due :
                              (p.id \in picked /\ q.id \notin picked) => RowLess(p, q)
    /\ \A w \in Workers :
          FetchCommit(w) =>
              LET f == fetching[w]
              IN /\ Cardinality(held'[w]) <= f.limit
                 /\ \A h \in held'[w] :
                       /\ h.task.next_run_at = f.now + (f.lockAhead \div Second)
                       /\ h.task \in tasks'
                       /\ \E r \in tasks :
                             /\ r.id = h.task.id
                             /\ r.next_run_at <= f.now
                             /\ r.attempts = h.task.attempts

\* A Complete with the token FetchReady returned, issued while the row is as
\* FetchReady left it, deletes the row.
CompleteDeletesLeased ==
    \A w \in Workers : \A h \in held[w] :
        (h.task \in tasks /\ CallStep(w, h, "Complete"))
            => RowsOf(tasks', h.task.id) = {}

\* C6: FetchReady returns at most limit due tasks, the first in order when
\* it runs alone, leases each until now + the lease duration and hands that
\* value out as the token with the attempts unchanged; a Complete by the
\* caller with that token, with no change in between, deletes the row.
C6_FetchLeaseComplete ==
    [][FetchReturnsLeased /\ CompleteDeletesLeased]_vars

\* A task leased and not yet reported on stays in the table as it was leased
\* until some FetchReady leases it again.
LeasedRowStays ==
    \A w \in Workers : \A h \in held[w] :
        issuedMax[h.task.id] = h.task.next_run_at => h.task \in tasks

IsTransient(err) ==
    \/ err = TimeoutErr
    \/ /\ err.type \in {"APIError", "RequestError"}
       /\ err.status \in {429, 408} \cup (500 .. 599)
IsPermanent(err) ==
    /\ err.type \in {"APIError", "RequestError"}
    /\ err.status \in (400 .. 499) \ {408, 429}

NumCalls(calls, kind) == Cardinality({i \in DOMAIN calls : calls[i].call = kind})

\* C8: for a failed execution, with attempts counting this failure: a
\* transient error below the cap gives exactly one Fail with a positive
\* backoff and no DeadLetter; a permanent error, or attempts at or over the
\* cap, gives exactly one DeadLetter and no Fail.
C8_OutcomeClassification ==
    (result.call = "handleTaskResult" /\ result.input \notin {NilErr, ErrEntityNotFound})
        => LET attempts == result.task.attempts + 1
               calls == result.calls
           IN /\ (IsTransient(result.input) /\ attempts < MaxAttempts)
                    => /\ NumCalls(calls, "Fail") = 1
                       /\ NumCalls(calls, "DeadLetter") = 0
                       /\ \A i \in DOMAIN calls : calls[i].call = "Fail" => calls[i].backoff > 0
              /\ (IsPermanent(result.input) \/ attempts >= MaxAttempts)
                    => /\ NumCalls(calls, "DeadLetter") = 1
                       /\ NumCalls(calls, "Fail") = 0

\* A timeout on the attempt that reaches the cap was dead-lettered.
C8_Witness ==
    /\ result.call = "handleTaskResult"
    /\ result.input = TimeoutErr
    /\ result.task.attempts + 1 = MaxAttempts
    /\ NumCalls(result.calls, "DeadLetter") = 1

\* C9: whenever a task row was removed because the worker gave up on it,
\* the dead-letter table holds a record for the identity with the error text
\* and the attempt count of that give-up.
C9_GiveUpRecorded ==
    \A id \in Identities :
        gaveUp[id].gone =>
            \E d \in dead :
                /\ d.id = id
                /\ d.error = gaveUp[id].error
                /\ d.attempts = gaveUp[id].attempts

\* Every task on the work list has a document, and assets when its model is
\* a vision-language one.
WorkHasDocument ==
    \A w \in Workers : \A h \in held[w] :
        h.stage = "work" =>
            /\ TrimSpace(HydratedDoc(h.task, h.doc)) # ""
            /\ IsVLModel(h.task.id.model) => h.assets > 0

\* C10: a leased task with an empty document (or, for a vision-language
\* model, no asset) and a task whose execution returns ErrEntityNotFound get
\* one Complete: the task never reaches the work list with an empty document,
\* no row changes other than by deletion, and no dead-letter row is written.
C10_NotFoundCompletes ==
    /\ []WorkHasDocument
    /\ [][\A w \in Workers : \A h \in held[w] :
            ( \/ \E doc \in Docs, assets \in AssetCounts :
                    /\ \/ TrimSpace(HydratedDoc(h.task, doc)) = ""
                       \/ IsVLModel(h.task.id.model) /\ assets = 0
                    /\ Classify(w, h, doc, assets)
              \/ \E j \in JitterOf(h.task) : Execute(w, h, ErrEntityNotFound, j) )
                => /\ result'.call = "Complete"
                   /\ dead' = dead
                   /\ tasks' \subseteq tasks
                   /\ \A x \in held'[w] : x.task.id # h.task.id]_vars

\* A task with an empty document was completed with its own lease token.
C10_Witness ==
    /\ result.call = "Complete"
    /\ result.cause = "empty"
    /\ result.matched
    /\ dead = {}

\* C11: a tick returns an error only for a store failure, and an error of
\* one item or one group (a provider error, a document-builder error for
\* one entity type) leaves every sibling task of the batch in the batch, to
\* receive its own outcome.
C11_ItemErrorsSpareSiblings ==
    [][\A w \in Workers :
          /\ (returned'[w] # returned[w] /\ returned'[w] \notin {NoErr, NotReturned})
                => returned'[w] = StoreError
          /\ \A h \in held[w] :
                /\ \A et \in HydratedTypes(held[w]) \ {h.task.id.entity_type} :
                      DrainHydrateError(w, et) => h \in held'[w]
                /\ \A g \in held[w] \ {h}, err \in TickExecErrors \ {NilErr},
                      storeFails \in BOOLEAN :
                      \A j \in JitterOf(g.task) :
                          DrainExecute(w, g, err, j, storeFails) => h \in held'[w]]_vars

\* C12: a store error is returned by the tick it occurs in: the error of a
\* failed FetchReady, and the error of a failed Complete, Fail or DeadLetter
\* when the tick ends with that call.
C12_StoreErrorReturned ==
    [][\A w \in Workers :
          /\ DrainFetchError(w) => returned'[w] = StoreError
          /\ \A h \in held[w] :
                ( /\ pc'[w] = "idle"
                  /\ \/ \E doc \in Docs : DrainClassify(w, h, doc, 0, TRUE)
                     \/ \E err \in TickExecErrors : \E j \in JitterOf(h.task) :
                            DrainExecute(w, h, err, j, TRUE) )
                    => returned'[w] = StoreError]_vars
\* The seconds by which the Fail of a recorded retry pushed next_run_at past
\* the time of the call.
PushedSecs == (CHOOSE r \in result.tasks : TRUE).next_run_at - 1

\* C13: the retry delay is non-decreasing in the attempt number up to the
\* cap, and for attempt n with base * 2^(n-1) below the cap the delay by which
\* next_run_at is pushed lies in [base * 2^(n-1), 1.25 * base * 2^(n-1)].
C13_BackoffBounds ==
    result.call = "Retry" =>
        /\ \A n \in BackoffAttempts :
              expBackoff(result.base, n, result.cap)
                  <= expBackoff(result.base, n + 1, result.cap)
        /\ result.base * Pow2(result.attempt - 1) < result.cap =>
              /\ PushedSecs * Second >= result.base * Pow2(result.attempt - 1)
              /\ 4 * PushedSecs * Second <= 5 * result.base * Pow2(result.attempt - 1)

\* The partition of a row of the backfill state table, and the instance's
\* call of the pager for a partition (it answers with a page or an error).
PartitionOf(r) == Partition(r.model, r.entity_type)
PagerCalled(w, p) ==
    /\ bfRun[w].pc = "list"
    /\ bfRun[w].part = p
    /\ BackfillList(w) \/ BackfillListError(w)

\* C14: a pager error leaves last_error and state = failed on the partition,
\* and while the partition is failed no later tick calls the pager for it or
\* changes its row.
C14_FailedNotRetried ==
    [][\A w \in Workers :
          /\ BackfillListError(w) =>
                LET r == RowOfPartition(bfState', bfRun[w].part)
                IN r.state = "failed" /\ r.last_error = PagerError
          /\ \A r \in bfState :
                r.state = "failed" => r \in bfState' /\ ~PagerCalled(w, PartitionOf(r))]_vars

\* C15: the backfill state of a partition only moves forward, also with
\* several instances ticking at once: the cursor never goes back, and a
\* partition that is done keeps its row as it is.
C15_BackfillMonotone ==
    [][\A r \in bfState :
          LET r2 == RowOfPartition(bfState', PartitionOf(r))
          IN /\ r2.cursor >= r.cursor
             /\ r.state = "done" => r2 = r]_vars

\* The entity ids queued for a partition by the backfill.
BackfillQueued(T, p) ==
    {r.id.entity_id : r \in {x \in T : /\ x.id.model = p.model
                                       /\ x.id.entity_type = p.entity_type
                                       /\ x.reason = "model_backfill"}}
Embedded(p, ids) == {id \in ids : Ident(p.entity_type, id, p.model) \in vectors}
NonBlank(ids) == {id \in ids : TrimSpace(id) # ""}
RECURSIVE SumPageSizes(_)
SumPageSizes(n) ==
    IF n = 0 THEN 0 ELSE Cardinality(BackfillPages[n]) + SumPageSizes(n - 1)
RECURSIVE SumNonBlank(_)
SumNonBlank(n) ==
    IF n = 0 THEN 0 ELSE Cardinality(NonBlank(BackfillPages[n])) + SumNonBlank(n - 1)
AllPageIds == UNION {BackfillPages[n] : n \in 1 .. NumPages}

HasDocument(S, e) == e \in S
VectorsFor(V, e) == {v \in V : v.entity_type = e.entity_type /\ v.entity_id = e.entity_id}
TasksFor(T, e) ==
    {r \in T : r.id.entity_type = e.entity_type /\ r.id.entity_id = e.entity_id}
MarkersFor(D, e) == {m \in D : EntityOf(m) = e}

\* C17: when a pass that picked up a deleted marker ends, the entity has no
\* document, no vector of any model, no task of any model and no marker, and
\* deleting again changes none of the tables.
C17_DeletionCascade ==
    [][PassClear =>
          \A r \in DeletedOf(rec.batch) :
              LET e == EntityOf(r)
              IN /\ ~HasDocument(documents', e)
                 /\ VectorsFor(vectors', e) = {}
                 /\ TasksFor(tasks', e) = {}
                 /\ MarkersFor(dirty', e) = {}
                 /\ DeleteSearchDocuments(documents', e) = documents'
                 /\ DeleteEmbeddingVectorsForEntity(vectors', e) = vectors'
                 /\ DeleteAllForEntity(tasks', e) = tasks'
                 /\ ClearMarkers(dirty', rec.batch) = dirty']_vars

\* The pass that picked up the deleted marker of the gallery entity, which had
\* a document, two vectors and a task, is over.
C17_Witness ==
    /\ rec = NoPass
    /\ MarkersFor(dirty, Entity("gallery", "1")) = {}
    /\ ~HasDocument(documents, Entity("gallery", "1"))
    /\ vectors = {}
    /\ tasks = {}
    /\ HasDocument(documents, Entity("wiki", "1"))

\* C18: markers leave search_dirty only in the last step of a pass, after the
\* deletions, the lexical rebuild and the enqueues of the batch went through,
\* and then all markers of the batch together; a pass that fails at any step
\* has deleted none.
C18_MarkersClearedLast ==
    [][/\ (\E m \in dirty : MarkersFor(dirty', EntityOf(m)) = {}) =>
              /\ rec.pc = "clear"
              /\ PassClear
              /\ \A r \in rec.batch : MarkersFor(dirty', EntityOf(r)) = {}
       /\ (rec.pc # "idle" /\ rec'.pc = "idle" /\ ~PassClear) =>
              \A r \in rec.batch : MarkersFor(dirty', EntityOf(r)) # {}]_vars

\* A pass over two markers, one of them deleted, has cleared both.
C18_Witness ==
    /\ rec = NoPass
    /\ dirty = {}
    /\ ~HasDocument(documents, Entity("wiki", "1"))
    /\ \E r \in tasks : r.reason = "dirty" /\ r.id.model = "text-model"
    /\ \E r \in tasks : r.reason = "dirty" /\ r.id.model = "vl-model"

\* C19: the semantic stage queues, for every non-deleted marker of a
\* semantically tracked entity type, one due task per active model with reason
\* dirty, stored vector or not, and leaves the tasks of every other entity of
\* the batch as they are.
C19_DirtyFanOut ==
    [][PassSemantic =>
          \A r \in rec.batch :
              IF r \in SemanticOf(rec.batch)
              THEN \A m \in ActiveModels :
                      LET rows == RowsOf(tasks', Ident(r.entity_type, r.entity_id, m))
                      IN /\ Cardinality(rows) = 1
                         /\ \A t \in rows : t.reason = "dirty" /\ t.next_run_at <= clock
              ELSE TasksFor(tasks', EntityOf(r)) = TasksFor(tasks, EntityOf(r))]_vars

\* The gallery entity keeps its vectors and has a dirty task per model; the
\* wiki entity, marked in the same batch, has none.
C19_Witness ==
    /\ rec.pc = "clear"
    /\ Cardinality(rec.batch) = 2
    /\ \A m \in ActiveModels :
          /\ Ident("gallery", "1", m) \in vectors
          /\ \E t \in tasks : t.id = Ident("gallery", "1", m) /\ t.reason = "dirty"
    /\ TasksFor(tasks, Entity("wiki", "1")) = {}

\* The identities of a list, and whether each comes once in it.
ListIdentities(list) == {keyString(list[i]) : i \in 1 .. Len(list)}
DuplicateFree(list) == Cardinality(ListIdentities(list)) = Len(list)
PositionIn(list, ks) == CHOOSE i \in 1 .. Len(list) : keyString(list[i]) = ks

\* The sum over the lists of weight / (K + rank), a list without the identity
\* adding nothing, in RRFScale-ths.
RECURSIVE ReciprocalRankSum(_, _, _, _, _)
ReciprocalRankSum(lists, weights, k, ks, n) ==
    IF n = 0
    THEN 0
    ELSE (IF ks \in ListIdentities(lists[n])
          THEN (RRFWeight(weights, n) * RRFScale(k)) \div (k + PositionIn(lists[n], ks))
          ELSE 0) + ReciprocalRankSum(lists, weights, k, ks, n - 1)

\* C20: FuseRRF scores every identity with the sum over the lists of
\* weight / (K + rank), rank counted from 1 and a list without the identity
\* adding 0 (K 60 and weight 1 by default); every identity of the lists comes
\* exactly once in the output; [[A, B], [B, C]] with K = 60 puts B strictly
\* first; one duplicate-free list comes back in its order.
C20_ReciprocalRankFusion ==
    result.call = "FuseRRF" =>
        LET lists == result.lists
            out == result.out
            ids == UNION {ListIdentities(lists[n]) : n \in 1 .. Len(lists)}
        IN /\ (\A n \in 1 .. Len(lists) : DuplicateFree(lists[n])) =>
                 \A i \in 1 .. Len(out) :
                    out[i].score = ReciprocalRankSum(lists, result.weights, RRFK(result.k),
                                                     keyString(out[i].key), Len(lists))
           /\ {keyString(out[i].key) : i \in 1 .. Len(out)} = ids
           /\ Len(out) = Cardinality(ids)
           /\ (lists = <<<<KeyA, KeyB>>, <<KeyB, KeyC>>>> /\ result.k = 60) =>
                 /\ out[1].key = KeyB
                 /\ \A i \in 2 .. Len(out) : out[i].score < out[1].score
           /\ (Len(lists) = 1 /\ DuplicateFree(lists[1])) =>
                 [i \in 1 .. Len(out) |-> keyString(out[i].key)]
                    = [i \in 1 .. Len(lists[1]) |-> keyString(lists[1][i])]

\* The two lists of the example fused with K = 60 and no weights.
C20_Witness ==
    /\ result.call = "FuseRRF"
    /\ result.lists = <<<<KeyA, KeyB>>, <<KeyB, KeyC>>>>
    /\ result.k = 60
    /\ result.weights = <<>>
    /\ Len(result.out) = 3
    /\ result.out[1].key = KeyB

\* The order of identities: entity_type, entity_id, language, model.
IdentityBefore(a, b) ==
    \/ StrRank(a[1]) < StrRank(b[1])
    \/ /\ a[1] = b[1]
       /\ \/ StrRank(a[2]) < StrRank(b[2])
          \/ /\ a[2] = b[2]
             /\ \/ StrRank(a[3]) < StrRank(b[3])
                \/ a[3] = b[3] /\ StrRank(a[4]) < StrRank(b[4])

\* C21: the fused output is sorted by score descending and, among equal
\* scores, by identity (entity_type, entity_id, language, model) ascending, so
\* equal input lists give one output order.
C21_FusedOrderDeterministic ==
    result.call = "FuseRRF" =>
        \A i, j \in 1 .. Len(result.out) :
            i < j =>
                \/ result.out[i].score > result.out[j].score
                \/ /\ result.out[i].score = result.out[j].score
                   /\ IdentityBefore(keyString(result.out[i].key),
                                     keyString(result.out[j].key))

\* The characters of s that are not whitespace, in order.
NonSpace(s) == SelectSeq(s, LAMBDA r : ~IsSpace(r))

\* The places of s where whitespace separates two words.
WordGaps(s) ==
    {i \in 1 .. Len(s) :
        /\ ~IsSpace(s[i])
        /\ i < Len(s)
        /\ IsSpace(s[i + 1])
        /\ \E j \in i + 2 .. Len(s) : ~IsSpace(s[j])}

\* q is query trimmed and collapsed: the same words, one space between two.
TrimmedAndCollapsed(q, query) ==
    /\ NonSpace(q) = NonSpace(query)
    /\ Cardinality({i \in 1 .. Len(q) : IsSpace(q[i])}) = Cardinality(WordGaps(query))
    /\ \A i \in 1 .. Len(q) :
          IsSpace(q[i]) =>
              /\ q[i] = 32
              /\ i > 1 /\ i < Len(q)
              /\ ~IsSpace(q[i + 1])

\* C22: Search and Typeahead hand their backends the query trimmed and
\* collapsed, and a query with no letter and no digit (an empty or blank one
\* included) gets an empty result, no error and no call to any backend.
C22_BlankQueryReturnsEmpty ==
    result.call \in {"Search", "Typeahead"} =>
        /\ \A i \in 1 .. Len(result.calls) :
              TrimmedAndCollapsed(result.calls[i].q, result.query)
        /\ (\A i \in 1 .. Len(result.query) :
                ~IsLetter(result.query[i]) /\ ~IsNumber(result.query[i])) =>
               /\ result.calls = <<>>
               /\ result.out = <<>>
               /\ ~result.err

C22_Witness ==
    /\ result.call = "Search"
    /\ result.query = <<12290, 32, 32, 12290>>
    /\ result.calls = <<>>
    /\ result.out = <<>>
    /\ ~result.err

\* ASCII letters and digits, and the CJK ranges: CJK symbols and punctuation,
\* hiragana, katakana and its phonetic extensions, the unified ideographs,
\* hangul syllables.
ASCIIAlphaNum == (48 .. 57) \cup (65 .. 90) \cup (97 .. 122)
CJKRanges ==
    (12288 .. 12543) \cup (12784 .. 12799) \cup (19968 .. 40959)
        \cup (44032 .. 55215)
Has(query, runes) == \E i \in 1 .. Len(query) : query[i] \in runes

\* The backends the language and the scripts of the query select.
Selected(query, language) ==
    IF language \in {"ja", "zh", "ko", "JA", "ZH", "KO"}
    THEN {b \in {"LexicalSearch"} : Has(query, ASCIIAlphaNum)}
             \cup {b \in {"PGroongaSearch"} : Has(query, CJKRanges)}
             \cup {"SemanticSearch"}
    ELSE {"FTSSearch", "SemanticSearch"}

\* C23: a Search whose query has a letter or a digit calls, for ja, zh and ko,
\* the trigram backend exactly when the query has an ASCII letter or digit and
\* the native-script backend exactly when it has a code point of the CJK
\* ranges, for any other language the full-text backend alone, and the vector
\* KNN in every case, each once; a backend that fails ends the Search, so the
\* calls made until then are among the selected ones.
C23_BackendSelection ==
    (/\ result.call = "Search"
     /\ \E i \in 1 .. Len(result.query) :
           IsLetter(result.query[i]) \/ IsNumber(result.query[i])) =>
        LET called == {result.calls[i].backend : i \in 1 .. Len(result.calls)}
        IN /\ Cardinality(called) = Len(result.calls)
           /\ called \subseteq Selected(result.query, result.language)
           /\ ~result.err => called = Selected(result.query, result.language)
           /\ result.err =>
                  /\ result.calls # <<>>
                  /\ \A i \in 1 .. Len(result.calls) :
                        result.calls[i].answer.err <=> i = Len(result.calls)

C23_Witness ==
    /\ result.call = "Search"
    /\ result.language = "ja"
    /\ result.query = <<97, 28450>>
    /\ ~result.err
    /\ Len(result.calls) = 3
    /\ result.calls[1].backend = "LexicalSearch"
    /\ result.calls[2].backend = "PGroongaSearch"
    /\ result.calls[3].backend = "SemanticSearch"
    /\ Len(result.out) = 2

\* A ja query of letters that are neither ASCII nor CJK runs the vector KNN
\* alone.
C23_VectorOnly ==
    /\ result.call = "Search"
    /\ result.language = "KO"
    /\ result.query = <<233>>
    /\ ~result.err
    /\ Len(result.calls) = 1

\* Every hit the lexical backends returned in the calls of the result.
ReturnedHits ==
    UNION {{result.calls[i].answer.hits[n] :
               n \in 1 .. Len(result.calls[i].answer.hits)} :
              i \in 1 .. Len(result.calls)}

\* The hits that may be shown: those that reach a positive MinSimilarity.
ShownHits ==
    {h \in ReturnedHits : result.floor > 0 => h.score >= result.floor}

\* a comes before b: higher score first, then entity_type, entity_id and
\* language ascending.
ScoreThenKeyBefore(a, b) ==
    \/ a.score > b.score
    \/ /\ a.score = b.score
       /\ \/ StrRank(a.entity_type) < StrRank(b.entity_type)
          \/ /\ a.entity_type = b.entity_type
             /\ \/ StrRank(a.entity_id) < StrRank(b.entity_id)
                \/ /\ a.entity_id = b.entity_id
                   /\ StrRank(a.language) < StrRank(b.language)

\* C24: Typeahead calls lexical backends only and returns their scores, not
\* fused ones; when both backends ran, every identity is in the result at most
\* once, with the highest score either backend gave it, the result is sorted
\* by score descending then (entity_type, entity_id, language) ascending, and
\* it is the leading limit hits of that order.
C24_TypeaheadMergesByMaxScore ==
    result.call = "Typeahead" =>
        /\ \A i \in 1 .. Len(result.calls) :
              result.calls[i].backend \in {"LexicalSearch", "PGroongaSearch"}
        /\ \A n \in 1 .. Len(result.out) : result.out[n] \in ReturnedHits
        /\ (Len(result.calls) = 2 /\ ~result.err) =>
               /\ \A n, m \in 1 .. Len(result.out) :
                     n < m =>
                         /\ HitKey(result.out[n]) # HitKey(result.out[m])
                         /\ ScoreThenKeyBefore(result.out[n], result.out[m])
               /\ \A n \in 1 .. Len(result.out) :
                     \A h \in ReturnedHits :
                         HitKey(h) = HitKey(result.out[n]) =>
                             h.score <= result.out[n].score
               /\ Len(result.out) <= result.limit
               /\ \A h \in ShownHits :
                     \/ \E n \in 1 .. Len(result.out) :
                           HitKey(result.out[n]) = HitKey(h)
                     \/ /\ Len(result.out) = result.limit
                        /\ \A n \in 1 .. Len(result.out) :
                              ScoreThenKeyBefore(result.out[n], h)

C24_Witness ==
    /\ result.call = "Typeahead"
    /\ result.language = "ja"
    /\ result.query = <<97, 28450>>
    /\ result.limit = 2
    /\ ~result.err
    /\ Len(result.calls) = 2
    /\ result.calls[1].answer.hits =
           <<LexicalHit("2", "ja", 40), LexicalHit("1", "ja", 20)>>
    /\ result.calls[2].answer.hits =
           <<LexicalHit("1", "ja", 40), LexicalHit("2", "ja", 20)>>
    /\ result.out = <<LexicalHit("1", "ja", 40), LexicalHit("2", "ja", 40)>>

\* Two hits merged, one returned.
C24_Truncated ==
    /\ result.call = "Typeahead"
    /\ result.limit = 1
    /\ ~result.err
    /\ Len(result.calls) = 2
    /\ Cardinality({HitKey(h) : h \in ShownHits}) = 2
    /\ Len(result.out) = 1

\* A finished two-stage retrieval.
TwoStageDone ==
    /\ result.call = "SearchVectors"
    /\ result.twoStage
    /\ ~result.err
    /\ result.limit > 0

\* The hits are candidates, none twice, at most limit, nearest first by exact
\* distance, none below the floor, and no better candidate is left out.
TwoStageRescored ==
    /\ Range(result.out) \subseteq result.candidates
    /\ Cardinality(Range(result.out)) = Len(result.out)
    /\ Len(result.out) <= result.limit
    /\ \A i, j \in 1 .. Len(result.out) :
          i < j => result.out[i].similarity >= result.out[j].similarity
    /\ \A i \in 1 .. Len(result.out) : result.out[i].similarity >= result.floor
    /\ \A c \in result.candidates \ Range(result.out) :
          \/ c.similarity < result.floor
          \/ /\ Len(result.out) = result.limit
             /\ \A i \in 1 .. Len(result.out) :
                   result.out[i].similarity >= c.similarity

\* The candidates are the window rows of the table nearest by approximate
\* distance.
IsStage1Window(window) ==
    /\ result.candidates \subseteq result.table
    /\ Cardinality(result.candidates) = Min(window, Cardinality(result.table))
    /\ \A c \in result.candidates :
          \A r \in result.table \ result.candidates : c.hamming <= r.hamming

ConfiguredNames(models) == {TrimSpace(models[i].name) : i \in 1 .. Len(models)}

\* C26: when UpsertModels succeeds for a non-empty list, the registry then
\* holds one row per configured model and no other, with the dims and the
\* modality of its (last) entry; no task, backfill-state row or dead letter
\* of another model is left; the stored vectors are what they were.
C26_UpsertModelsSyncsAndPrunes ==
    [][(/\ result'.call = "UpsertModels"
        /\ result'.err = NoErr
        /\ result'.models # <<>>) =>
          LET S == result'.models
          IN /\ {r.model : r \in registry'} = ConfiguredNames(S)
             /\ Cardinality(registry') = Cardinality(ConfiguredNames(S))
             /\ \A i \in 1 .. Len(S) :
                   (\A j \in i + 1 .. Len(S) : S[j].name # S[i].name) =>
                       ModelRow(TrimSpace(S[i].name), S[i].dims,
                                TrimSpace(S[i].modality)) \in registry'
             /\ \A r \in tasks' \cup bfState' \cup dead' :
                   ModelOf(r) \in ConfiguredNames(S)
             /\ vectors' = vectors]_vars

C26_Witness ==
    /\ result.call = "UpsertModels"
    /\ result.err = NoErr
    /\ result.models = <<ModelSpec("text-model", 16, "text")>>
    /\ result.pruned = 4
    /\ registry = {ModelRow("text-model", 16, "text")}
    /\ tasks = {TaskRow(TextTask, "dirty", 0, 0)}
    /\ VLTask \in vectors

\* C27: at every moment of a worker tick the provider calls in flight are at
\* most MaxConcurrentEmbeds (8 when the option is not positive), whatever the
\* batch and its mix of text chunks and vision-language tasks; a call in
\* flight holds a slot of the gate.
C27_ProviderCallsBounded ==
    /\ Cardinality(InFlight) <= dispatch.cap
    /\ dispatch.cap \in (1 .. MaxGate) \cup {DefaultMaxConcurrentEmbeds}
    /\ (dispatch.pc \in {"dispatching", "crashed"}) =>
         Cardinality(InFlight) <= dispatch.gate

\* The gate is full of text chunks in flight and a vision-language task waits
\* for a slot.
C27_Witness ==
    /\ Dispatching
    /\ Cardinality(InFlight) = dispatch.cap
    /\ dispatch.next \in UnitIds
    /\ IsVLUnit(dispatch.units[dispatch.next])
    /\ dispatch.cap = MaxGate

\* A goroutine that can free its slot without a provider call finishing: it
\* is past its call, or it waits for a token and sees the cancelled context.
FreesSlotWithoutCall(u) ==
    \/ dispatch.status[u] = "handling"
    \/ dispatch.status[u] = "spawned" /\ dispatch.limited /\ dispatch.cancelled

\* C28: once the context of the tick is cancelled, a wait on the gate and a
\* wait for a token return without any provider call in flight having to
\* finish: the dispatcher's send on the gate can proceed, or a slot is freed
\* by a goroutine that is not inside a provider call, and a goroutine waiting
\* for a token can return; no slot is occupied once the tick has returned.
C28_WaitsReturnOnCancel ==
    /\ (Dispatching /\ dispatch.cancelled /\ dispatch.next \in UnitIds) =>
         \/ GateFree(dispatch)
         \/ \E u \in UnitIds : FreesSlotWithoutCall(u)
    /\ (Dispatching /\ dispatch.cancelled /\ dispatch.limited) =>
         \A u \in UnitIds : dispatch.status[u] = "spawned" => FreesSlotWithoutCall(u)
    /\ dispatch.pc = "returned" => dispatch.gate = 0

\* The tick is over: processBatch has returned, or the process has ended.
TickOver == dispatch.pc \in {"returned", "crashed"}

\* C29: in a tick whose hydration succeeded and whose context is not
\* cancelled, every leased task of the batch gets exactly one outcome call
\* (Complete, Fail or DeadLetter), whatever happens to the calls of the other
\* sub-batches: never more than one, and one by the time the tick is over.
C29_ExactlyOneOutcome ==
    (dispatch.pc \in {"dispatching", "returned", "crashed"}) =>
        /\ \A id \in Range(dispatch.batch) : Len(dispatch.outcomes[id]) <= 1
        /\ (TickOver /\ ~dispatch.cancelled) =>
             \A id \in Range(dispatch.batch) : Len(dispatch.outcomes[id]) = 1

\* The same for the ticks that return.
ReturnedWithOutcomes ==
    (dispatch.pc \in {"dispatching", "returned"}) =>
        /\ \A id \in Range(dispatch.batch) : Len(dispatch.outcomes[id]) <= 1
        /\ (dispatch.pc = "returned" /\ ~dispatch.cancelled) =>
             \A id \in Range(dispatch.batch) : Len(dispatch.outcomes[id]) = 1

SubBatchDone == result.call = "sub-batch"
BlankItem(i) == TrimSpace(result.input.items[i].doc) = ""

\* C30: when the call for a text chunk fails as a whole, every item without
\* an outcome of its own is handled with that error, and an item the runtime
\* classified itself (an empty document, entity not found) keeps its own
\* outcome and is completed; when the call succeeds, the failure of one
\* item's vector upsert is the error of that item only.
C30_BatchErrorAndItemErrors ==
    SubBatchDone =>
        \A i \in DOMAIN result.input.items :
            /\ (result.batchErr # NilErr /\ result.perItemErrs # <<>>) =>
                 /\ BlankItem(i) =>
                      result.handled[i] = ErrEntityNotFound /\ result.calls[i] = "Complete"
                 /\ ~BlankItem(i) => result.handled[i] = result.batchErr
            /\ (result.batchErr # NilErr /\ result.perItemErrs = <<>>) =>
                 result.handled[i] = result.batchErr
            /\ (result.batchErr # NilErr /\ result.embedded) =>
                 result.batchErr = result.input.embedErr
            /\ result.batchErr = NilErr =>
                 result.handled[i] =
                     IF BlankItem(i) THEN ErrEntityNotFound
                     ELSE IF i \in result.input.storeFails THEN TimeoutErr
                     ELSE NilErr

\* A chunk of an empty and a filled document whose provider call failed, so
\* that one item keeps its own outcome and the other gets the batch error.
C30_Witness ==
    /\ SubBatchDone
    /\ result.batchErr = TimeoutErr
    /\ result.embedded
    /\ \E i, k \in DOMAIN result.input.items :
         /\ result.handled[i] = ErrEntityNotFound
         /\ result.handled[k] = TimeoutErr
         /\ result.calls[i] = "Complete"
         /\ result.calls[k] = "Fail"

\* A hybrid Search that returned hits for ja, zh or ko and a query with both
\* an ASCII letter or digit and a CJK character.
MixedScriptSearch ==
    /\ result.call = "Search"
    /\ ~result.err
    /\ isCJKLanguage(result.language)
    /\ Has(result.query, ASCIIAlphaNum)
    /\ Has(result.query, CJKRanges)

LexicalCalls ==
    {i \in 1 .. Len(result.calls) : result.calls[i].backend # "SemanticSearch"}

\* The scores one lexical ranking and the vector ranking can add up to.
OneListTerms == {0} \cup {RRFTerm(1, DefaultRRFK, r) : r \in 1 .. MaxListLen}
TwoListScores == {l + s : l \in OneListTerms, s \in OneListTerms}

\* C31: in a hybrid Search for ja, zh or ko and a mixed-script query the hits
\* of the trigram and of the native-script backend enter the fusion as one
\* lexical ranking: no identity is in two lexical lists handed to FuseRRF,
\* and no fused score holds more than one lexical and one vector term.
C31_LexicalMergedBeforeFusion ==
    MixedScriptSearch =>
        /\ \A i, k \in LexicalCalls :
              i # k =>
                 Range(SearchLists(result.calls)[i])
                     \cap Range(SearchLists(result.calls)[k]) = {}
        /\ \A n \in 1 .. Len(result.out) : result.out[n].score \in TwoListScores

\* The work items whose execution worker w has just finished.
Executed(w) == {h \in held[w] : h.stage = "work" /\ h \notin held'[w]}

\* An execution that failed with a transient error while its lease token was
\* still the row's next_run_at.
TransientFailure == result'.cause = TimeoutErr.type /\ result'.matched

\* C32: a task whose executions all fail with a transient error is
\* rescheduled by Fail with one more attempt while it has failed fewer than
\* MaxAttempts times, and on its MaxAttempts-th failure it leaves the table
\* for a dead-letter record with attempts = MaxAttempts; no row ever counts
\* MaxAttempts attempts, so without an expired lease it is executed at most
\* MaxAttempts times.
C32_RetriedUpToTheCap ==
    /\ [](\A r \in tasks : r.attempts <= MaxAttempts - 1)
    /\ [](\A d \in dead : d.error = ErrorText(TimeoutErr) => d.attempts = MaxAttempts)
    /\ [][\A w \in Workers : \A h \in Executed(w) :
            TransientFailure =>
               \A row \in RowsOf(tasks, h.task.id) :
                  IF row.attempts + 1 < MaxAttempts
                  THEN /\ result'.call = "Fail"
                       /\ dead' = dead
                       /\ \E r \in tasks' :
                            /\ RowsOf(tasks', row.id) = {r}
                            /\ r.attempts = row.attempts + 1
                            /\ r.next_run_at > clock
                  ELSE /\ result'.call = "DeadLetter"
                       /\ RowsOf(tasks', row.id) = {}
                       /\ \E d \in dead' :
                            /\ d.id = row.id
                            /\ d.attempts = MaxAttempts
                            /\ d.error = ErrorText(TimeoutErr)]_vars

\* A task failed MaxAttempts times with a timeout and is now a dead letter.
C32_Witness ==
    \E d \in dead :
        /\ d.attempts = MaxAttempts
        /\ d.error = ErrorText(TimeoutErr)
        /\ RowsOf(tasks, d.id) = {}
        /\ gaveUp[d.id].gone

\* The lease tokens worker w holds for identity id, and whether one is the
\* next_run_at of the row.
TokensOf(w, id) == {h.task.next_run_at : h \in {x \in held[w] : x.task.id = id}}
IsCurrent(token, T, id) == \E r \in RowsOf(T, id) : r.next_run_at = token

\* C33: a lease token has one owner.  Whatever Enqueue, FetchReady, Fail and
\* the passing of time do, two workers never hold a token that is the row's
\* current next_run_at, and a held token that is no longer the row's
\* next_run_at never is again.
C33_TokenHasOneOwner ==
    /\ [](\A w, v \in Workers : \A id \in Identities :
            w # v =>
               \A t \in TokensOf(w, id), u \in TokensOf(v, id) :
                  ~(IsCurrent(t, tasks, id) /\ IsCurrent(u, tasks, id)))
    /\ [][\A w \in Workers : \A id \in Identities :
            \A t \in TokensOf(w, id) \cap TokensOf(w, id)' :
               ~IsCurrent(t, tasks, id) => ~IsCurrent(t, tasks', id)]_vars

\* A successful Enqueue of the identity of the queue (no other step leaves an
\* Enqueue result with the workers and the time as they were).
EnqueueStep ==
    /\ result'.call = "Enqueue"
    /\ result'.err = NoErr
    /\ held' = held
    /\ pc' = pc
    /\ clock' = clock

\* C34: a change flagged while its task is processed is not lost.  When
\* Enqueue is called for an identity a worker holds with a token that is the
\* row's next_run_at, the row stays, is due at once, and its next_run_at is
\* no longer the holder's token, so that the holder's later Complete with
\* that token deletes nothing.
C34_EnqueueSupersedesLease ==
    [][EnqueueStep =>
         \A w \in Workers : \A t \in TokensOf(w, TextTask) :
            IsCurrent(t, tasks, TextTask) =>
               /\ RowsOf(tasks', TextTask) # {}
               /\ \A r \in RowsOf(tasks', TextTask) : r.next_run_at <= clock
               /\ ~IsCurrent(t, tasks', TextTask)]_vars

\* The non-blank ids of the pages the cursor of a partition has passed.
PassedIds(r) ==
    UNION {{RunOncePages[p][i] : i \in {k \in DOMAIN RunOncePages[p] :
                                           TrimSpace(RunOncePages[p][k]) # ""}} :
              p \in 1 .. r.cursor}

\* C37: backfill.RunOnce never moves the cursor of a partition past an id it
\* has not enqueued: with no worker taking tasks away, every non-blank id of
\* a page behind the cursor has its task, also when the run stopped on its
\* budget in the middle of a page.
C37_CursorBehindEnqueued ==
    \A r \in bfState :
        \A id \in PassedIds(r) : RowsOf(tasks, Ident(r.entity_type, id, r.model)) # {}

\* The step that commits the deletion of the markers of a batch.
MarkersCleared == rec.pc = "clear" /\ rec' = NoPass /\ dirty' # dirty

\* Nothing of an entity is left: no document, no vector, no task.
EntityGone(e, S, V, T) ==
    /\ e \notin S
    /\ DeleteEmbeddingVectorsForEntity(V, e) = V
    /\ DeleteAllForEntity(T, e) = T

\* C35: the reconciler loses no change notification.  When the host rewrote
\* a marker after the pass read its batch (the deleted flag differs from the
\* one the pass read), then after the pass the marker is still there, or
\* what the pass did is what the rewritten marker asks for: nothing of a
\* deleted entity is left, or the tasks of a changed entity are queued.
C35_RewrittenMarkerNotLost ==
    [][MarkersCleared =>
         \A r \in rec.batch : \A m \in MarkersFor(dirty, EntityOf(r)) :
            m.is_deleted # r.is_deleted =>
               \/ m \in dirty'
               \/ m.is_deleted /\ EntityGone(EntityOf(m), documents', vectors', tasks')
               \/ /\ ~m.is_deleted
                  /\ (m.entity_type \in SemanticTypes =>
                        \A model \in ActiveModels :
                           RowsOf(tasks', Ident(m.entity_type, m.entity_id, model)) # {})
                  /\ EntityOf(m) \in documents']_vars

\* C36: a deleted entity stays deleted in the vector store.  Once a pass has
\* deleted the vectors of the entity and cleared its marker, and until the
\* host marks the entity again, no step stores a vector for it, also not the
\* step of a worker that leased and hydrated its task before the pass.
C36_DeletedStaysDeleted ==
    [][(/\ rec = NoPass
        /\ MarkersFor(dirty, DeletedEntity) = {}
        /\ DeleteEmbeddingVectorsForEntity(vectors, DeletedEntity) = vectors) =>
          DeleteEmbeddingVectorsForEntity(vectors', DeletedEntity) = vectors']_vars

\* C38: within a tick the random source of the backoff jitter is used by one
\* outcome handler at a time: no two goroutines of processBatch are both at
\* an item whose outcome draws a jitter.
C38_OneJitterDrawAtATime ==
    Dispatching => Cardinality({u \in UnitIds : DrawsJitter(u)}) <= 1

\* The lexical backends called in the result of Search or Typeahead.
LexicalBackendsCalled ==
    {result.calls[i].backend : i \in 1 .. Len(result.calls)}
        \cap {"LexicalSearch", "PGroongaSearch"}

\* C39: for ja, zh and ko every query with a letter or a digit goes to at
\* least one lexical backend, in Search and in Typeahead.
C39_SomeLexicalBackend ==
    (/\ result.call \in {"Search", "Typeahead"}
     /\ isCJKLanguage(result.language)
     /\ \E i \in 1 .. Len(result.query) :
           IsLetter(result.query[i]) \/ IsNumber(result.query[i])) =>
        LexicalBackendsCalled # {}

\* C40: every task leaves the live queue.  With the worker ticking, the
\* store and the collaborators answering and nobody enqueueing, each row of
\* the task table is eventually gone, completed or dead-lettered.
C40_EveryTaskLeaves ==
    \A id \in Identities : (RowsOf(tasks, id) # {}) ~> (RowsOf(tasks, id) = {})

\* The same for the tasks of a table in which no identity has a blank field.
NonBlankTasksLeave ==
    \A id \in Identities :
        (RowsOf(tasks, id) # {} /\ \A r \in tasks : ~IdentBlank(r.id))
            ~> (RowsOf(tasks, id) = {})

====
